---------------------------- MODULE Spec2Model ----------------------------
(***************************************************************************)
(* A model of sprout's build orchestration (package nix) and commands.     *)
(*                                                                         *)
(*   Spec         one call of Nix.Build: the choice of the backend, then   *)
(*                buildLocal (the nix-build subprocess, the two pipe       *)
(*                readers, cmd.Wait) or buildWithDocker (the working       *)
(*                directory, the container, the log demultiplexer, the     *)
(*                exit wait, the store-path extraction).                   *)
(*   SpecResolve  one call of processDockerComposeImages from loadConfig:   *)
(*                the range over the services, the rewritten compose       *)
(*                content, buildAndSaveDockerImages, loadConfig's return.  *)
(*   SpecCopy     buildWithDocker up to the start of the container, for    *)
(*                the image lists that loadConfig returns.                 *)
(*   SpecLocate   one call of FindImageFile on a path and a file system.   *)
(*   SpecTimeout  Spec with the deadline of the root command.               *)
(*   SpecSplit    Spec with a container whose lines may be cut by frames.  *)
(*   SpecGrow     one run of the grow command: runGrow and the copy to the *)
(*                output path.                                             *)
(*   SpecDisplay  the rolling display under its lock.                      *)
(*   SpecLoad     one call of loadConfig, full or metadata-only.           *)
(*   SpecBurn     one run of the burn command up to burnImage.             *)
(*                                                                         *)
(* Text is a sequence of bytes (numbers 0..255), so that trimming, line    *)
(* splitting, prefix tests and the 8-byte frame header are computed as the *)
(* code computes them.  Image references and service names, which the code *)
(* only rewrites character by character, are sequences of one-character    *)
(* strings.                                                                *)
(***************************************************************************)
EXTENDS Integers, Sequences, FiniteSets, TLC

VARIABLES
    \* ---- Nix.Build
    pc,           \* where the calling goroutine is
    disableEnv,   \* what os.Getenv("SPROUT_DISABLE_LOCAL_NIX") returns
    nixOnPath,    \* whether exec.LookPath("nix-build") succeeds
    ran,          \* the backends executed so far, in order (history)
    ret,          \* what Build returned: [path, err]
    \* ---- buildLocal
    proc,         \* the nix-build subprocess: "none", "running", "exited"
    exitStatus,   \* its exit status once exited
    written,      \* [stream -> chunks the subprocess wrote] (history)
    pipe,         \* [stream -> chunks written and not yet read]
    pipeClosed,   \* cmd.Wait closed the parent's read ends
    rstate,       \* [stream -> the reader goroutine: "idle", "run", "done"]
    rbuf,         \* [stream -> bytes the Scanner holds, not yet a token]
    rerr,         \* [stream -> the Scanner's Read met EOF or an error]
    lastLine,     \* the stdout reader's lastLine
    resultChan,   \* the buffered channel (capacity 1)
    buildResult,  \* buildLocal's buildResult
    picked,       \* buildResult was received from resultChan (history)
    looked,       \* FindImageFile was called (history)
    \* ---- buildWithDocker
    tempDir,      \* the working directory: "none", "exists", "removed"
    container,    \* "none", "created", "running", "exited"
    waitStatus,   \* the container's exit status once exited
    frames,       \* the complete frames the container emitted (history)
    stream,       \* the bytes of the multiplexed log stream so far
    logs,         \* the log reader: "none", "open", "closed"
    dstate,       \* processDockerLogs: "idle","header","payload","scan","write","done"
    dpos,         \* bytes of stream that processDockerLogs has consumed
    dsize,        \* payloadSize of the frame being read
    dlines,       \* the lines of the current payload still to scan
    dline,        \* the line being written to buildOutput
    framesRead,   \* frames processDockerLogs has fully processed (history)
    buildOutput,  \* the strings.Builder's content
    output,       \* what buildOutput.String() returned to streamDockerLogs
    extracted,    \* extractNixStorePath was called (history)
    waitErr,      \* ContainerWait's error channel delivered an error (history)
    \* ---- prepareDockerBuildDir, copyDockerImages
    sproutFile,   \* sproutFile.DockerCompose: [Enabled, Images]
    rendered,     \* the content of the nix file that Build is given
    hostArchives, \* the archive paths under /tmp at which a file exists
    nixFile,      \* the content of image.nix in the working directory
    workdir,      \* the names of the files copied into the working directory
    \* ---- FindImageFile
    locate,       \* one call: [path, kind, fs, called, result, probes]
    \* ---- the commands and the display
    timedOut,     \* the deadline of Execute's context has passed
    display,      \* display.go: the ring buffer, its lock and its callers
    grow,         \* runGrow and copyFileWithProgress
    load,         \* loadConfig: its inputs and what it read
    burn,         \* runBurn
    \* ---- processDockerComposeImages
    resolvePc,    \* "idle", "loop" (the range over the services), "assigned",
                  \* then the step of the embedding, "failed", "embedded", "returned"
    services,     \* project.Services: [service name -> [image, build]]
    todo,         \* the services the range has not reached yet
    images,       \* the local slice images
    imageMap,     \* the keys of imageMap that map to true
    dockerImages, \* dockerConfig.Images
    \* ---- createModifiedComposeContent, buildAndSaveDockerImages, loadConfig
    modifiedContent, \* dockerConfig.ModifiedContent: the services it declares
    idx,          \* the index of buildAndSaveDockerImages' range (from 1)
    tagged,       \* the local tags cli.ImageTag has set in the daemon
    archives,     \* the archive files os.Create has made under /tmp
    embedLog,     \* the daemon and docker-compose calls made, in order (history)
    loadResult    \* what loadConfig returned: "none", "config", "error"

buildVars == <<pc, disableEnv, nixOnPath, ran, ret>>
localVars == <<proc, exitStatus, written, pipe, pipeClosed, rstate, rbuf, rerr,
               lastLine, resultChan, buildResult, picked, looked>>
containerVars == <<container, waitStatus, frames, stream>>
readerVars == <<dstate, dpos, dsize, dlines, dline, framesRead, buildOutput>>
dockerVars == <<tempDir, containerVars, logs, readerVars, output, extracted, waitErr>>
embedVars == <<modifiedContent, idx, tagged, archives, embedLog, loadResult>>
resolveVars == <<resolvePc, services, todo, images, imageMap, dockerImages,
                 embedVars>>
copyVars == <<sproutFile, rendered, hostArchives, nixFile, workdir>>
cmdVars == <<timedOut, display, grow, load, burn>>
vars == <<buildVars, localVars, dockerVars, copyVars, locate, cmdVars, resolveVars>>

-----------------------------------------------------------------------------
(* Bounds of the model.                                                    *)

\* chunks the subprocess writes to its stdout
MaxWrites == 2
\* chunks the subprocess writes to its stderr
MaxErrWrites == 1
\* complete frames the container emits
MaxFrames == 2

-----------------------------------------------------------------------------
(* Bytes and text.                                                         *)

NL == 10
SP == 32
CR == 13
HeaderLen == 8

\* unicode.IsSpace on the bytes below 128: \t \n \v \f \r and the space
IsSpace(c) == c \in {9, NL, 11, 12, CR, SP}

RECURSIVE TrimLeft(_)
TrimLeft(s) ==
    IF s # <<>> /\ IsSpace(Head(s)) THEN TrimLeft(Tail(s)) ELSE s

RECURSIVE TrimRight(_)
TrimRight(s) ==
    IF s # <<>> /\ IsSpace(s[Len(s)])
    THEN TrimRight(SubSeq(s, 1, Len(s) - 1))
    ELSE s

\* strings.TrimSpace
TrimSpace(s) == TrimRight(TrimLeft(s))

\* bytes.IndexByte, 1-based; 0 when c does not occur
IndexByte(s, c) ==
    IF \E i \in 1..Len(s) : s[i] = c
    THEN CHOOSE i \in 1..Len(s) : s[i] = c /\ \A j \in 1..(i - 1) : s[j] # c
    ELSE 0

\* strings.HasPrefix
HasPrefix(s, p) == Len(s) >= Len(p) /\ SubSeq(s, 1, Len(p)) = p

\* strings.Split(s, "\n"): always at least one element, the last one being
\* whatever follows the last separator (possibly empty)
RECURSIVE Split(_)
Split(s) ==
    LET i == IndexByte(s, NL)
    IN  IF i = 0 THEN <<s>>
        ELSE <<SubSeq(s, 1, i - 1)>> \o Split(SubSeq(s, i + 1, Len(s)))

\* bufio's dropCR
dropCR(tok) ==
    IF tok # <<>> /\ tok[Len(tok)] = CR THEN SubSeq(tok, 1, Len(tok) - 1) ELSE tok

\* bufio.ScanLines over a complete input (a bytes.Reader): every line without
\* its terminator, and the unterminated rest, if not empty, as a last line
RECURSIVE ScanLines(_)
ScanLines(data) ==
    IF data = <<>> THEN <<>>
    ELSE LET i == IndexByte(data, NL)
         IN  IF i = 0 THEN <<dropCR(data)>>
             ELSE <<dropCR(SubSeq(data, 1, i - 1))>>
                      \o ScanLines(SubSeq(data, i + 1, Len(data)))

\* Image references and service names, one character per element
WEB == <<"w", "e", "b">>
DB == <<"d", "b">>
A_DASH_B == <<"a", "-", "b">>
A_UNDER_B == <<"a", "_", "b">>
REDIS7 == <<"r", "e", "d", "i", "s", ":", "7">>
WEB_LATEST == <<"w", "e", "b", ":", "l", "a", "t", "e", "s", "t">>
COLON_LATEST == <<":", "l", "a", "t", "e", "s", "t">>
ORG_WEB_LATEST == <<"o", "/">> \o WEB_LATEST
EMBEDDED == <<"e", "m", "b", "e", "d", "d", "e", "d", "/">>
TMP == <<"/", "t", "m", "p", "/">>
DOT_TAR == <<".", "t", "a", "r">>
IMAGE_NIX == <<"i", "m", "a", "g", "e", ".", "n", "i", "x">>
WORKSPACE == <<"/", "w", "o", "r", "k", "s", "p", "a", "c", "e", "/">>
X == <<"x">>
X_TAR == X \o DOT_TAR

RECURSIVE Flatten(_)
Flatten(chunks) ==
    IF chunks = <<>> THEN <<>> ELSE Head(chunks) \o Flatten(Tail(chunks))

\* the prefixes of s, the empty one and s itself included
Prefixes(s) == {SubSeq(s, 1, k) : k \in 0..Len(s)}

-----------------------------------------------------------------------------
(* Nix.Build                                                               *)

Streams == {"stdout", "stderr"}

NoRet == [path |-> <<>>, err |-> FALSE]
Fail == [path |-> <<>>, err |-> TRUE]
Ok(p) == [path |-> p, err |-> FALSE]

\* Build with the two tests in the other order: LookPath before the variable
SelectBackendLookPathFirst(env, found) ==
    IF found THEN "local"
    ELSE "docker"

\* The backend Build calls: Docker when the variable is not empty, else the
\* local nix-build when LookPath finds it, else Docker.
SelectBackend(env, found) ==
    IF env # <<>> THEN "docker"
    ELSE IF found THEN "local"
    ELSE "docker"

Build ==
    /\ pc = "Build"
    /\ LET b == SelectBackend(disableEnv, nixOnPath)
       IN  /\ ran' = Append(ran, b)
           /\ pc' = IF b = "local" THEN "buildLocal" ELSE "buildWithDocker"
    /\ UNCHANGED <<resolveVars, locate, cmdVars, copyVars, disableEnv, nixOnPath, ret, localVars, dockerVars>>

-----------------------------------------------------------------------------
(* buildLocal                                                              *)

\* What one write of the subprocess to stdout carries: the whole output of
\* the example "a", "", "b", "/store/xyz"; the start of a line; the rest of
\* a line; a padded line followed by a blank one.
StdoutChunks ==
    { <<97, 10, 10, 98, 10, 47, 115, 116, 111, 114, 101, 47, 120, 121, 122, 10>>,
      <<47, 115, 116, 111, 114, 101, 47>>,
      <<120, 121, 122, 10>>,
      <<32, 120, 32, 10, 32, 32, 10>> }

\* One write to stderr: "w\n"
StderrChunks == { <<119, 10>> }

ChunksOf(s) == IF s = "stdout" THEN StdoutChunks ELSE StderrChunks
MaxWritesOf(s) == IF s = "stdout" THEN MaxWrites ELSE MaxErrWrites

\* filepath.Abs, cmd.StdoutPipe, cmd.StderrPipe and cmd.Start; when all
\* succeed the subprocess runs and the two reader goroutines are started.
LocalStart ==
    /\ pc = "buildLocal"
    /\ \E ok \in BOOLEAN :
         IF ok
         THEN /\ proc' = "running"
              /\ rstate' = [s \in Streams |-> "run"]
              /\ pc' = "localWait"
              /\ ret' = ret
         ELSE /\ pc' = "done"
              /\ ret' = Fail
              /\ UNCHANGED <<proc, rstate>>
    /\ UNCHANGED <<resolveVars, locate, cmdVars, copyVars, disableEnv, nixOnPath, ran, exitStatus, written, pipe,
                   pipeClosed, rbuf, rerr, lastLine, resultChan, buildResult,
                   picked, looked, dockerVars>>

\* The subprocess writes one chunk to one of its output streams.
ProcWrite(s, c) ==
    /\ proc = "running"
    /\ Len(written[s]) < MaxWritesOf(s)
    /\ written' = [written EXCEPT ![s] = Append(@, c)]
    /\ pipe' = [pipe EXCEPT ![s] = Append(@, c)]
    /\ UNCHANGED <<resolveVars, locate, cmdVars, copyVars, buildVars, proc, exitStatus, pipeClosed, rstate, rbuf, rerr,
                   lastLine, resultChan, buildResult, picked, looked, dockerVars>>

\* The subprocess exits; the write ends of its pipes close with it.
ProcExit(st) ==
    /\ proc = "running"
    /\ proc' = "exited"
    /\ exitStatus' = st
    /\ UNCHANGED <<resolveVars, locate, cmdVars, copyVars, buildVars, written, pipe, pipeClosed, rstate, rbuf, rerr,
                   lastLine, resultChan, buildResult, picked, looked, dockerVars>>

HasLine(buf) == IndexByte(buf, NL) # 0

\* Scanner.Scan needs more input and calls Read on the pipe: a read end that
\* cmd.Wait has closed gives an error, whatever the pipe still holds; else
\* the bytes at hand; else, all write ends closed, EOF; else Read blocks.
ReaderRead(s) ==
    /\ rstate[s] = "run"
    /\ ~rerr[s]
    /\ ~HasLine(rbuf[s])
    /\ IF pipeClosed
       THEN /\ rerr' = [rerr EXCEPT ![s] = TRUE]
            /\ UNCHANGED <<pipe, rbuf>>
       ELSE IF pipe[s] # <<>>
       THEN /\ rbuf' = [rbuf EXCEPT ![s] = @ \o Head(pipe[s])]
            /\ pipe' = [pipe EXCEPT ![s] = Tail(@)]
            /\ UNCHANGED rerr
       ELSE /\ proc = "exited"
            /\ rerr' = [rerr EXCEPT ![s] = TRUE]
            /\ UNCHANGED <<pipe, rbuf>>
    /\ UNCHANGED <<resolveVars, locate, cmdVars, copyVars, buildVars, proc, exitStatus, written, pipeClosed, rstate,
                   lastLine, resultChan, buildResult, picked, looked, dockerVars>>

\* The token Scan returns from buf, and what stays in buf: a terminated
\* line; or, after EOF or an error, the unterminated rest.
NextToken(buf) ==
    LET i == IndexByte(buf, NL)
    IN  IF i # 0
        THEN [tok |-> dropCR(SubSeq(buf, 1, i - 1)), rest |-> SubSeq(buf, i + 1, Len(buf))]
        ELSE [tok |-> dropCR(buf), rest |-> <<>>]

\* The body of the reader's loop for one line.  The stdout reader keeps the
\* trimmed line as lastLine when it is not empty; the stderr reader only
\* displays it.
KeepLine(s, line, last) ==
    IF s = "stdout" /\ line # <<>> THEN line ELSE last

ReaderToken(s) ==
    /\ rstate[s] = "run"
    /\ HasLine(rbuf[s]) \/ (rerr[s] /\ rbuf[s] # <<>>)
    /\ LET t == NextToken(rbuf[s])
       IN  /\ rbuf' = [rbuf EXCEPT ![s] = t.rest]
           /\ lastLine' = KeepLine(s, TrimSpace(t.tok), lastLine)
    /\ UNCHANGED <<resolveVars, locate, cmdVars, copyVars, buildVars, proc, exitStatus, written, pipe, pipeClosed,
                   rstate, rerr, resultChan, buildResult, picked, looked,
                   dockerVars>>

\* Scan returns false: the stdout reader sends lastLine on resultChan, and
\* the goroutine ends.
ReaderEnd(s) ==
    /\ rstate[s] = "run"
    /\ rerr[s]
    /\ rbuf[s] = <<>>
    /\ rstate' = [rstate EXCEPT ![s] = "done"]
    /\ resultChan' = IF s = "stdout" THEN Append(resultChan, lastLine) ELSE resultChan
    /\ UNCHANGED <<resolveVars, locate, cmdVars, copyVars, buildVars, proc, exitStatus, written, pipe, pipeClosed, rbuf,
                   rerr, lastLine, buildResult, picked, looked, dockerVars>>

\* cmd.Wait's error dropped
WaitFailedIgnored(st) == FALSE

\* cmd.Wait: returns once the subprocess has exited, closes the read ends of
\* both pipes, and reports a non-zero status as an error.
WaitFailed(st) == st # 0

LocalWait ==
    /\ pc = "localWait"
    /\ proc = "exited"
    /\ pipeClosed' = TRUE
    /\ IF WaitFailed(exitStatus)
       THEN pc' = "done" /\ ret' = Fail
       ELSE pc' = "localRecv" /\ ret' = ret
    /\ UNCHANGED <<resolveVars, locate, cmdVars, copyVars, disableEnv, nixOnPath, ran, proc, exitStatus, written, pipe,
                   rstate, rbuf, rerr, lastLine, resultChan, buildResult,
                   picked, looked, dockerVars>>

\* buildResult = <-resultChan; finishStreamingDisplay()
LocalRecv ==
    /\ pc = "localRecv"
    /\ resultChan # <<>>
    /\ buildResult' = Head(resultChan)
    /\ resultChan' = Tail(resultChan)
    /\ picked' = TRUE
    /\ pc' = "localFind"
    /\ UNCHANGED <<resolveVars, locate, cmdVars, copyVars, disableEnv, nixOnPath, ran, ret, proc, exitStatus, written,
                   pipe, pipeClosed, rstate, rbuf, rerr, lastLine, looked,
                   dockerVars>>

\* ".img", "result.img", "sd-image", "sprout-docker-", "/"
DOT_IMG == <<46, 105, 109, 103>>
RESULT_IMG == <<114, 101, 115, 117, 108, 116, 46, 105, 109, 103>>
SD_IMAGE == <<115, 100, 45, 105, 109, 97, 103, 101>>
SPROUT_DOCKER == <<115, 112, 114, 111, 117, 116, 45, 100, 111, 99, 107, 101, 114, 45>>
SLASH == 47
DOT == 46

\* filepath.Base of a path that does not end in "/"
RECURSIVE BaseName(_)
BaseName(path) ==
    IF \E i \in 1..Len(path) : path[i] = SLASH
    THEN BaseName(Tail(path))
    ELSE path

\* filepath.Ext: the suffix of the last element from its last dot on, or ""
RECURSIVE ExtOfName(_)
ExtOfName(name) ==
    IF \E i \in 1..Len(name) : name[i] = DOT
    THEN IF \E i \in 2..Len(name) : name[i] = DOT
         THEN ExtOfName(Tail(name))
         ELSE IF Head(name) = DOT THEN name ELSE ExtOfName(Tail(name))
    ELSE <<>>
Ext(path) == ExtOfName(BaseName(path))

\* strings.Contains(s, substr)
ContainsString(s, substr) ==
    \E k \in 1..(Len(s) - Len(substr) + 1) :
        SubSeq(s, k, k + Len(substr) - 1) = substr

\* filepath.Join of a clean path and a name
Join(dir, name) == dir \o <<SLASH>> \o name

\* The file system as FindImageFile sees it from basePath: what basePath is
\* ("missing", "file", "dir"), whether basePath/result.img exists, what
\* basePath/sd-image is ("missing", "unreadable", "dir") and its entries in
\* the order of os.ReadDir
EntryLists ==
    {<<>>,
     <<[name |-> <<105, 46, 105, 109, 103>>, dir |-> FALSE]>>,
     <<[name |-> <<100, 46, 105, 109, 103>>, dir |-> TRUE], [name |-> <<105, 46, 105, 109, 103>>, dir |-> FALSE]>>,
     <<[name |-> <<97, 46, 116, 120, 116>>, dir |-> FALSE]>>,
     <<[name |-> <<105, 46, 105, 109, 103>>, dir |-> FALSE], [name |-> <<106, 46, 105, 109, 103>>, dir |-> FALSE]>>}

FileSystems ==
    {[kind |-> "missing", resultImg |-> FALSE, sdImage |-> "missing", entries |-> <<>>],
     [kind |-> "file", resultImg |-> FALSE, sdImage |-> "unreadable", entries |-> <<>>]}
    \cup [kind : {"dir"}, resultImg : BOOLEAN, sdImage : {"missing", "unreadable"},
          entries : {<<>>}]
    \cup [kind : {"dir"}, resultImg : BOOLEAN, sdImage : {"dir"},
          entries : EntryLists]

Found(path, probes) == [res |-> Ok(path), probes |-> probes]
NotFound(probes) == [res |-> Fail, probes |-> probes]

\* The range over the entries of basePath/sd-image
RECURSIVE ScanEntries(_, _)
ScanEntries(sdImageDir, entries) ==
    IF entries = <<>> THEN NotFound({"Stat sd-image", "ReadDir sd-image"})
    ELSE IF ~Head(entries).dir /\ ExtOfName(Head(entries).name) = DOT_IMG
         THEN Found(Join(sdImageDir, Head(entries).name),
                    {"Stat sd-image", "ReadDir sd-image"})
         ELSE ScanEntries(sdImageDir, Tail(entries))

\* FindImageFile after its first return: the "sprout-docker-" branch and the
\* sd-image branch
FindByConvention(fs, basePath) ==
    IF ContainsString(basePath, SPROUT_DOCKER)
    THEN IF BaseName(basePath) = RESULT_IMG /\ fs.kind # "dir"
         THEN Found(basePath, {})
         ELSE IF fs.resultImg
              THEN Found(Join(basePath, RESULT_IMG), {"Stat result.img"})
              ELSE NotFound({"Stat result.img"})
    ELSE IF fs.sdImage = "missing" THEN NotFound({"Stat sd-image"})
    ELSE IF fs.sdImage = "unreadable"
         THEN NotFound({"Stat sd-image", "ReadDir sd-image"})
    ELSE ScanEntries(Join(basePath, SD_IMAGE), fs.entries)

\* FindImageFile without the direct return of a file with the extension .img
FindImageFileWithoutExtRule(fs, basePath) ==
    IF fs.kind = "missing" THEN NotFound({})
    ELSE FindByConvention(fs, basePath)

\* FindImageFile(basePath) on the file system fs: [res, probes], probes being
\* the file-system calls made after the os.Stat of basePath
FindImageFile(fs, basePath) ==
    IF fs.kind = "missing" THEN NotFound({})
    ELSE IF fs.kind # "dir" /\ Ext(basePath) = DOT_IMG THEN Found(basePath, {})
    ELSE FindByConvention(fs, basePath)

LocalFind ==
    /\ pc = "localFind"
    /\ looked' = TRUE
    /\ \E fs \in FileSystems :
         /\ buildResult = <<>> => fs.kind = "missing"
         /\ ret' = FindImageFile(fs, buildResult).res
    /\ pc' = "done"
    /\ UNCHANGED <<resolveVars, locate, cmdVars, copyVars, disableEnv, nixOnPath, ran, proc, exitStatus, written, pipe,
                   pipeClosed, rstate, rbuf, rerr, lastLine, resultChan,
                   buildResult, picked, dockerVars>>

-----------------------------------------------------------------------------
(* buildWithDocker: the container and its multiplexed log stream           *)

\* A frame of the multiplexed stream: byte 0 of the header is the stream (1
\* stdout, 2 stderr), bytes 4..7 the length of the payload, big endian.
Header(stype, n) ==
    <<stype, 0, 0, 0,
      (n \div 16777216) % 256, (n \div 65536) % 256, (n \div 256) % 256, n % 256>>

Encode(f) == Header(f.stype, Len(f.payload)) \o f.payload

\* The frames the container may emit: "ok\n" on stdout and "err\n" on stderr;
\* "/nix/store/x\n"; " a \n\n/nix/store/y\n" (a padded line, an empty
\* line and a store path in one payload); a frame with an empty payload.
FramePool ==
    { [stype |-> 1, payload |-> <<111, 107, 10>>],
      [stype |-> 2, payload |-> <<101, 114, 114, 10>>],
      [stype |-> 1, payload |-> <<47, 110, 105, 120, 47, 115, 116, 111, 114, 101, 47, 120, 10>>],
      [stype |-> 1, payload |-> <<32, 97, 32, 10, 10, 47, 110, 105, 120, 47, 115, 116, 111,
                                   114, 101, 47, 121, 10>>],
      [stype |-> 1, payload |-> <<>>] }

\* The frame a stream that is cut short ends in, and how many of its bytes
\* arrive: one byte or all but one byte of the header, the whole header and
\* nothing of the payload, all but the last byte of the payload.
CutFrame ==
    [stype |-> 1, payload |-> <<32, 97, 32, 10, 10, 47, 110, 105, 120, 47, 115, 116, 111,
                                 114, 101, 47, 121, 10>>]

Tails ==
    {<<>>} \cup {SubSeq(Encode(CutFrame), 1, k) :
                    k \in {1, HeaderLen - 1, HeaderLen, Len(Encode(CutFrame)) - 1}}

ContainerEmit(f) ==
    /\ container = "running"
    /\ Len(frames) < MaxFrames
    /\ frames' = Append(frames, f)
    /\ stream' = stream \o Encode(f)
    /\ UNCHANGED <<resolveVars, locate, cmdVars, copyVars, buildVars, localVars, tempDir, container, waitStatus, logs,
                   readerVars, output, extracted, waitErr>>

\* The container exits; the log stream ends, after a whole frame or cut short.
ContainerExit(st, tail) ==
    /\ container = "running"
    /\ container' = "exited"
    /\ waitStatus' = st
    /\ stream' = stream \o tail
    /\ UNCHANGED <<resolveVars, locate, cmdVars, copyVars, buildVars, localVars, tempDir, frames, logs, readerVars,
                   output, extracted, waitErr>>

-----------------------------------------------------------------------------
(* processDockerLogs, the goroutine streamDockerLogs starts                *)

\* The length read with the least significant byte first
PayloadSizeLittleEndian(header) ==
    header[5] + header[6] * 256 + header[7] * 65536 + header[8] * 16777216

\* int(header[4])<<24 | int(header[5])<<16 | int(header[6])<<8 | int(header[7])
PayloadSize(header) ==
    header[5] * 16777216 + header[6] * 65536 + header[7] * 256 + header[8]

Avail == Len(stream) - dpos

\* io.ReadFull(logs, header): an error once logs is closed or the stream has
\* ended with fewer than 8 bytes left; 8 bytes when they are there.
DReadHeader ==
    /\ dstate = "header"
    /\ IF logs = "closed" \/ (Avail < HeaderLen /\ container = "exited")
       THEN /\ dstate' = "done"
            /\ UNCHANGED <<dpos, dsize, framesRead>>
       ELSE /\ Avail >= HeaderLen
            /\ LET payloadSize == PayloadSize(SubSeq(stream, dpos + 1, dpos + HeaderLen))
               IN  /\ dpos' = dpos + HeaderLen
                   /\ IF payloadSize <= 0
                      THEN /\ dstate' = "header"
                           /\ framesRead' = framesRead + 1
                           /\ dsize' = dsize
                      ELSE /\ dstate' = "payload"
                           /\ dsize' = payloadSize
                           /\ framesRead' = framesRead
    /\ UNCHANGED <<resolveVars, locate, cmdVars, copyVars, buildVars, localVars, tempDir, containerVars, logs, dlines,
                   dline, buildOutput, output, extracted, waitErr>>

\* io.ReadFull(logs, payload), then a Scanner over the payload
DReadPayload ==
    /\ dstate = "payload"
    /\ IF logs = "closed" \/ (Avail < dsize /\ container = "exited")
       THEN /\ dstate' = "done"
            /\ UNCHANGED <<dpos, dlines>>
       ELSE /\ Avail >= dsize
            /\ dlines' = ScanLines(SubSeq(stream, dpos + 1, dpos + dsize))
            /\ dpos' = dpos + dsize
            /\ dstate' = "scan"
    /\ UNCHANGED <<resolveVars, locate, cmdVars, copyVars, buildVars, localVars, tempDir, containerVars, logs, dsize,
                   dline, framesRead, buildOutput, output, extracted, waitErr>>

\* The lines from the first one that is not empty once trimmed
RECURSIVE SkipBlank(_)
SkipBlank(lines) ==
    IF lines # <<>> /\ TrimSpace(Head(lines)) = <<>> THEN SkipBlank(Tail(lines)) ELSE lines

\* for scanner.Scan() { line := strings.TrimSpace(scanner.Text()); if line != "" ...
DScan ==
    /\ dstate = "scan"
    /\ LET rest == SkipBlank(dlines)
       IN  IF rest = <<>>
           THEN /\ dstate' = "header"
                /\ framesRead' = framesRead + 1
                /\ dlines' = <<>>
                /\ dline' = dline
           ELSE /\ dstate' = "write"
                /\ dline' = TrimSpace(Head(rest))
                /\ dlines' = Tail(rest)
                /\ framesRead' = framesRead
    /\ UNCHANGED <<resolveVars, locate, cmdVars, copyVars, buildVars, localVars, tempDir, containerVars, logs, dpos,
                   dsize, buildOutput, output, extracted, waitErr>>

\* buildOutput.WriteString(line + "\n"); displayStreamingLine(line, ...)
DWrite ==
    /\ dstate = "write"
    /\ buildOutput' = buildOutput \o dline \o <<NL>>
    /\ dline' = <<>>
    /\ dstate' = "scan"
    /\ UNCHANGED <<resolveVars, locate, cmdVars, copyVars, buildVars, localVars, tempDir, containerVars, logs, dpos,
                   dsize, dlines, framesRead, output, extracted, waitErr>>

-----------------------------------------------------------------------------
(* buildWithDocker, runDockerBuild, streamDockerLogs                       *)

\* prepareDockerBuildDir without the os.RemoveAll of its copy-failure branch
prepareDockerBuildDirNoCleanup(o) ==
    CASE o = "noDir" -> [dir |-> "none", err |-> TRUE]
      [] o = "copyFailed" -> [dir |-> "exists", err |-> TRUE]
      [] OTHER -> [dir |-> "exists", err |-> FALSE]

\* prepareDockerBuildDir: it fails before the directory exists (Abs,
\* UserHomeDir, MkdirTemp), or removes the directory when the copy of the nix
\* file fails, or leaves the directory in place and succeeds.
prepareDockerBuildDir(o) ==
    CASE o = "noDir" -> [dir |-> "none", err |-> TRUE]
      [] o = "copyFailed" -> [dir |-> "removed", err |-> TRUE]
      [] OTHER -> [dir |-> "exists", err |-> FALSE]

DockerPrepare ==
    /\ pc = "buildWithDocker"
    /\ \E o \in {"noDir", "copyFailed", "ok"} :
         LET r == prepareDockerBuildDir(o)
         IN  /\ tempDir' = r.dir
             /\ IF r.err
                THEN /\ pc' = "done" /\ ret' = Fail
                     /\ UNCHANGED <<nixFile, workdir>>
                ELSE /\ pc' = "copyDockerImages" /\ ret' = ret
                     /\ nixFile' = rendered
                     /\ workdir' = {IMAGE_NIX}
    /\ UNCHANGED <<resolveVars, locate, cmdVars, sproutFile, rendered, hostArchives, disableEnv, nixOnPath, ran, localVars, containerVars, logs,
                   readerVars, output, extracted, waitErr>>

\* What the deferred os.RemoveAll(tempDir) leaves of the directory
DeferredRemoveAll(dir) == "removed"

\* A return of buildWithDocker after line 25: the deferred calls run.
DockerReturn(r) ==
    /\ pc' = "done"
    /\ ret' = r
    /\ tempDir' = DeferredRemoveAll(tempDir)

-----------------------------------------------------------------------------
(* copyDockerImages, updateTarPathInNixFile                                *)

\* archives a sproutFile lists
MaxCopyImages == 2

\* filepath.Base of a path that does not end in "/"
RECURSIVE Base(_)
Base(path) ==
    IF \E i \in 1..Len(path) : path[i] = "/"
    THEN Base(Tail(path))
    ELSE path

\* strings.ReplaceAll(str, old, new) for a non-empty old: the occurrences
\* from left to right, without overlap
RECURSIVE ReplaceAllString(_, _, _)
ReplaceAllString(str, old, new) ==
    IF Len(str) < Len(old) THEN str
    ELSE IF SubSeq(str, 1, Len(old)) = old
         THEN new \o ReplaceAllString(SubSeq(str, Len(old) + 1, Len(str)), old, new)
         ELSE <<Head(str)>> \o ReplaceAllString(Tail(str), old, new)

\* updateTarPathInNixFile: the new content of the nix file
updateTarPathInNixFile(content, oldPath, newPath) ==
    ReplaceAllString(content, oldPath, newPath)

\* Where copyDockerImages fails: nowhere, or at the copyFile or at the
\* updateTarPathInNixFile of the image of some index
CopyFailures(imgs) ==
    {<<0, "none">>} \cup ((1..Len(imgs)) \X {"copyFile", "updateTarPathInNixFile"})

\* The range of copyDockerImages from image i on: [err, nixFile, workdir]
RECURSIVE CopyFrom(_, _, _, _, _, _)
CopyFrom(imgs, i, host, content, files, failure) ==
    IF i > Len(imgs) THEN [err |-> FALSE, nixFile |-> content, workdir |-> files]
    ELSE LET img == imgs[i]
             tarFileName == Base(img.TarPath)
         IN  IF img.TarPath \notin host
             THEN CopyFrom(imgs, i + 1, host, content, files, failure)
             ELSE IF failure = <<i, "copyFile">>
             THEN [err |-> TRUE, nixFile |-> content, workdir |-> files]
             ELSE IF failure = <<i, "updateTarPathInNixFile">>
             THEN [err |-> TRUE, nixFile |-> content,
                   workdir |-> files \cup {tarFileName}]
             ELSE CopyFrom(imgs, i + 1, host,
                           updateTarPathInNixFile(content, img.TarPath,
                                                  WORKSPACE \o tarFileName),
                           files \cup {tarFileName}, failure)

\* copyDockerImages
copyDockerImages(sf, host, content, files, failure) ==
    IF ~sf.Enabled
    THEN [err |-> FALSE, nixFile |-> content, workdir |-> files]
    ELSE CopyFrom(sf.Images, 1, host, content, files, failure)

CopyDockerImages ==
    /\ pc = "copyDockerImages"
    /\ \E failure \in CopyFailures(sproutFile.Images) :
         LET r == copyDockerImages(sproutFile, hostArchives, nixFile, workdir,
                                   failure)
         IN  /\ failure # <<0, "none">> => r.err
             /\ nixFile' = r.nixFile
             /\ workdir' = r.workdir
             /\ IF r.err
                THEN DockerReturn(Fail)
                ELSE pc' = "NewClientWithOpts" /\ UNCHANGED <<ret, tempDir>>
    /\ UNCHANGED <<resolveVars, locate, cmdVars, sproutFile, rendered, hostArchives, disableEnv,
                   nixOnPath, ran, localVars, containerVars, logs, readerVars,
                   output, extracted, waitErr>>

\* The steps between the working directory and the container, each of which
\* either fails, and buildWithDocker returns, or leads to the next one:
\* client.NewClientWithOpts, createDockerConfigs.
SetupNext ==
    [NewClientWithOpts |-> "createDockerConfigs",
     createDockerConfigs |-> "ContainerCreate"]

DockerSetup ==
    /\ pc \in DOMAIN SetupNext
    /\ \E ok \in BOOLEAN :
         IF ok
         THEN pc' = SetupNext[pc] /\ UNCHANGED <<ret, tempDir>>
         ELSE DockerReturn(Fail)
    /\ UNCHANGED <<resolveVars, locate, cmdVars, copyVars, disableEnv, nixOnPath, ran, localVars, containerVars, logs,
                   readerVars, output, extracted, waitErr>>

ContainerCreate ==
    /\ pc = "ContainerCreate"
    /\ \E ok \in BOOLEAN :
         IF ok
         THEN /\ container' = "created"
              /\ pc' = "ContainerStart"
              /\ UNCHANGED <<ret, tempDir>>
         ELSE DockerReturn(Fail) /\ UNCHANGED container
    /\ UNCHANGED <<resolveVars, locate, cmdVars, copyVars, disableEnv, nixOnPath, ran, localVars, waitStatus, frames,
                   stream, logs, readerVars, output, extracted, waitErr>>

ContainerStart ==
    /\ pc = "ContainerStart"
    /\ \E ok \in BOOLEAN :
         IF ok
         THEN /\ container' = "running"
              /\ pc' = "ContainerLogs"
              /\ UNCHANGED <<ret, tempDir>>
         ELSE DockerReturn(Fail) /\ UNCHANGED container
    /\ UNCHANGED <<resolveVars, locate, cmdVars, copyVars, disableEnv, nixOnPath, ran, localVars, waitStatus, frames,
                   stream, logs, readerVars, output, extracted, waitErr>>

\* cli.ContainerLogs, then go n.processDockerLogs(logs, &buildOutput)
ContainerLogs ==
    /\ pc = "ContainerLogs"
    /\ \E ok \in BOOLEAN :
         IF ok
         THEN /\ logs' = "open"
              /\ dstate' = "header"
              /\ pc' = "ContainerWait"
              /\ UNCHANGED <<ret, tempDir>>
         ELSE DockerReturn(Fail) /\ UNCHANGED <<logs, dstate>>
    /\ UNCHANGED <<resolveVars, locate, cmdVars, copyVars, disableEnv, nixOnPath, ran, localVars, containerVars, dpos,
                   dsize, dlines, dline, framesRead, buildOutput, output,
                   extracted, waitErr>>

\* case err := <-errCh: the wait itself fails
WaitError ==
    /\ pc = "ContainerWait"
    /\ logs' = "closed"
    /\ waitErr' = TRUE
    /\ DockerReturn(Fail)
    /\ UNCHANGED <<resolveVars, locate, cmdVars, copyVars, disableEnv, nixOnPath, ran, localVars, containerVars,
                   readerVars, output, extracted>>

\* case status := <-statusCh: the container is not running any more
StatusFailed(code) == code # 0

WaitStatus ==
    /\ pc = "ContainerWait"
    /\ container = "exited"
    /\ logs' = "closed"
    /\ IF StatusFailed(waitStatus)
       THEN DockerReturn(Fail)
       ELSE pc' = "extractNixStorePath" /\ UNCHANGED <<ret, tempDir>>
    /\ UNCHANGED <<resolveVars, locate, cmdVars, copyVars, disableEnv, nixOnPath, ran, localVars, containerVars,
                   readerVars, output, extracted, waitErr>>

\* "/nix/store/"
StorePrefix == <<47, 110, 105, 120, 47, 115, 116, 111, 114, 101, 47>>

\* The scan run from the first line to the last
RECURSIVE ScanForward(_, _)
ScanForward(lines, i) ==
    IF i = 0 THEN <<>>
    ELSE LET line == TrimSpace(lines[Len(lines) - i + 1])
         IN  IF HasPrefix(line, StorePrefix) THEN line ELSE ScanForward(lines, i - 1)

\* for i := len(lines) - 1; i >= 0; i-- : the first line met, trimmed, that
\* has the prefix; the empty string when there is none
RECURSIVE ScanBack(_, _)
ScanBack(lines, i) ==
    IF i = 0 THEN <<>>
    ELSE LET line == TrimSpace(lines[i])
         IN  IF HasPrefix(line, StorePrefix) THEN line ELSE ScanBack(lines, i - 1)

extractNixStorePath(out) ==
    LET lines == Split(TrimSpace(out))
        nixStorePath == ScanBack(lines, Len(lines))
    IN  IF nixStorePath = <<>> THEN Fail ELSE Ok(nixStorePath)

\* buildOutput.String() is not synchronised with the goroutine's
\* WriteString: it returns the content as it is, or, while a WriteString is
\* in progress, the content with any part of the line being written.
RacyString ==
    IF dstate = "write"
    THEN {buildOutput \o p : p \in Prefixes(dline \o <<NL>>)}
    ELSE {buildOutput}

DockerExtract ==
    /\ pc = "extractNixStorePath"
    /\ \E o \in RacyString :
         /\ output' = o
         /\ DockerReturn(extractNixStorePath(o))
    /\ extracted' = TRUE
    /\ UNCHANGED <<resolveVars, locate, cmdVars, copyVars, disableEnv, nixOnPath, ran, localVars, containerVars, logs,
                   readerVars, waitErr>>

-----------------------------------------------------------------------------
(* The specification of one Build call                                     *)

BackendsIdle ==
    /\ ran = <<>>
    /\ ret = NoRet
    /\ proc = "none"
    /\ exitStatus = 0
    /\ written = [s \in Streams |-> <<>>]
    /\ pipe = [s \in Streams |-> <<>>]
    /\ pipeClosed = FALSE
    /\ rstate = [s \in Streams |-> "idle"]
    /\ rbuf = [s \in Streams |-> <<>>]
    /\ rerr = [s \in Streams |-> FALSE]
    /\ lastLine = <<>>
    /\ resultChan = <<>>
    /\ buildResult = <<>>
    /\ picked = FALSE
    /\ looked = FALSE
    /\ tempDir = "none"
    /\ container = "none"
    /\ waitStatus = 0
    /\ frames = <<>>
    /\ stream = <<>>
    /\ logs = "none"
    /\ dstate = "idle"
    /\ dpos = 0
    /\ dsize = 0
    /\ dlines = <<>>
    /\ dline = <<>>
    /\ framesRead = 0
    /\ buildOutput = <<>>
    /\ output = <<>>
    /\ extracted = FALSE
    /\ waitErr = FALSE

EmbedIdle ==
    /\ modifiedContent = <<>>
    /\ idx = 0
    /\ tagged = {}
    /\ archives = {}
    /\ embedLog = <<>>
    /\ loadResult = "none"

\* No compose file: docker_compose is not enabled and the nix file mentions
\* no archive
CopyIdle ==
    /\ sproutFile = [Enabled |-> FALSE, Images |-> <<>>]
    /\ rendered = <<>>
    /\ hostArchives = {}
    /\ nixFile = <<>>
    /\ workdir = {}

\* The paths FindImageFile is given: "/n/s", "/n/s.img",
\* "/h/sprout-docker-1", "/h/sprout-docker-1/result.img"
LocatePaths ==
    {<<47, 110, 47, 115>>,
     <<47, 110, 47, 115, 46, 105, 109, 103>>,
     <<47, 104, 47, 115, 112, 114, 111, 117, 116, 45, 100, 111, 99, 107, 101, 114, 45, 49>>,
     <<47, 104, 47, 115, 112, 114, 111, 117, 116, 45, 100, 111, 99, 107, 101, 114, 45, 49, 47, 114, 101, 115, 117, 108, 116, 46, 105, 109, 103>>}

BackendKinds == {"Local", "Containerized"}

LocateIdle ==
    locate = [path |-> <<>>, kind |-> "Local", fs |-> CHOOSE fs \in FileSystems : fs.kind = "missing",
              called |-> FALSE, result |-> NoRet, probes |-> {}]

\* No deadline has passed and no command is running
TimerIdle == timedOut = FALSE
DisplayIdle == display = <<>>
GrowIdle == grow = <<>>
LoadIdle == load = <<>>
BurnIdle == burn = <<>>
CmdIdle == TimerIdle /\ DisplayIdle /\ GrowIdle /\ LoadIdle /\ BurnIdle

ResolveIdle ==
    /\ resolvePc = "idle"
    /\ services = <<>>
    /\ todo = {}
    /\ images = <<>>
    /\ imageMap = {}
    /\ dockerImages = <<>>
    /\ EmbedIdle

Init ==
    /\ pc = "Build"
    /\ disableEnv \in {<<>>, <<49>>}
    /\ nixOnPath \in BOOLEAN
    /\ BackendsIdle
    /\ CopyIdle
    /\ LocateIdle
    /\ CmdIdle
    /\ ResolveIdle

ExitCodes == {0, 1}

Next ==
    \/ Build
    \/ LocalStart
    \/ \E s \in Streams : \E c \in ChunksOf(s) : ProcWrite(s, c)
    \/ \E st \in ExitCodes : ProcExit(st)
    \/ \E s \in Streams : ReaderRead(s)
    \/ \E s \in Streams : ReaderToken(s)
    \/ \E s \in Streams : ReaderEnd(s)
    \/ LocalWait
    \/ LocalRecv
    \/ LocalFind
    \/ DockerPrepare
    \/ CopyDockerImages
    \/ DockerSetup
    \/ ContainerCreate
    \/ ContainerStart
    \/ ContainerLogs
    \/ \E f \in FramePool : ContainerEmit(f)
    \/ \E st \in ExitCodes : \E tail \in Tails : ContainerExit(st, tail)
    \/ DReadHeader
    \/ DReadPayload
    \/ DScan
    \/ DWrite
    \/ WaitError
    \/ WaitStatus
    \/ DockerExtract

Spec == Init /\ [][Next]_vars

(***************************************************************************)
(* The same call of Build with a container whose line "/nix/store/x\n"     *)
(* may also arrive cut into the two consecutive frames "/nix/st" and       *)
(* "ore/x\n": the Docker daemon frames what each write of the container   *)
(* hands it, and a write need not end at the end of a line.                *)
(***************************************************************************)
SplitFrames ==
    { [stype |-> 1, payload |-> <<47, 110, 105, 120, 47, 115, 116>>],
      [stype |-> 1, payload |-> <<111, 114, 101, 47, 120, 10>>] }

NextSplit == Next \/ \E f \in SplitFrames : ContainerEmit(f)

SpecSplit == Init /\ [][NextSplit]_vars

(***************************************************************************)
(* The deadline of the root command.  Execute (internal/cmd/root.go) makes *)
(* a context with the timeout commandTimeout and hands it to the command.  *)
(* buildWithDocker makes its own context.Background() (line 33) and        *)
(* buildLocal starts nix-build with exec.Command, so that no step of a     *)
(* backend reads the context of the command: when the deadline passes      *)
(* only timedOut changes, and the steps of Next stay enabled as before.    *)
(***************************************************************************)
Expire ==
    /\ ~timedOut
    /\ proc = "running" \/ container = "running"
    /\ timedOut' = TRUE
    /\ UNCHANGED <<buildVars, localVars, dockerVars, copyVars, locate, resolveVars,
                   display, grow, load, burn>>

NextTimeout == Next \/ Expire

SpecTimeout == Init /\ [][NextTimeout]_vars

-----------------------------------------------------------------------------
(* Properties of one Build call                                            *)

LocalPcs == {"buildLocal", "localWait", "localRecv", "localFind"}
DockerPcs == {"buildWithDocker", "copyDockerImages", "NewClientWithOpts",
              "createDockerConfigs", "ContainerCreate", "ContainerStart",
              "ContainerLogs", "ContainerWait", "extractNixStorePath"}
LocalEntered == pc \in LocalPcs \/ proc # "none"
DockerEntered == pc \in DockerPcs \/ tempDir # "none"

\* C1: Build runs the Docker backend whenever SPROUT_DISABLE_LOCAL_NIX is set
\* (os.Getenv gives a non-empty value), even when nix-build is on the search
\* path; otherwise the local backend when nix-build is on the search path;
\* otherwise the Docker backend.  Exactly one backend is executed per call.
C1_BackendSelection ==
    /\ Len(ran) <= 1
    /\ pc # "Build" =>
         /\ Len(ran) = 1
         /\ disableEnv # <<>> => ran[1] = "docker"
         /\ (disableEnv = <<>> /\ nixOnPath) => ran[1] = "local"
         /\ (disableEnv = <<>> /\ ~nixOnPath) => ran[1] = "docker"
    /\ LocalEntered => ran = <<"local">> /\ ~DockerEntered
    /\ DockerEntered => ran = <<"docker">> /\ ~LocalEntered

\* The variable is set, nix-build is on the path, and the Docker backend ran
\* up to its extraction step.
C1_Witness ==
    /\ pc = "done"
    /\ disableEnv # <<>>
    /\ nixOnPath
    /\ ran = <<"docker">>
    /\ extracted

\* The last element of lines that is not empty, the empty line when none is
RECURSIVE LastNonEmpty(_)
LastNonEmpty(lines) ==
    IF lines = <<>> THEN <<>>
    ELSE IF lines[Len(lines)] # <<>> THEN lines[Len(lines)]
    ELSE LastNonEmpty(SubSeq(lines, 1, Len(lines) - 1))

\* C2: when the local build has exited with status 0, the build result
\* buildLocal takes is the last non-empty line of all the subprocess wrote to
\* its stdout.
C2_LastStdoutLine ==
    picked => buildResult = LastNonEmpty(Split(Flatten(written["stdout"])))

\* The lines of a payload as the claims speak of them
RawLines(payload) == SelectSeq(Split(payload), LAMBDA l : l # <<>>)
TrimmedLines(payload) ==
    LET ls == Split(payload)
    IN  SelectSeq([i \in 1..Len(ls) |-> TrimSpace(ls[i])], LAMBDA l : l # <<>>)

RECURSIVE JoinLines(_)
JoinLines(ls) ==
    IF ls = <<>> THEN <<>> ELSE Head(ls) \o <<NL>> \o JoinLines(Tail(ls))

RECURSIVE AccumulatedRaw(_)
AccumulatedRaw(fs) ==
    IF fs = <<>> THEN <<>>
    ELSE JoinLines(RawLines(Head(fs).payload)) \o AccumulatedRaw(Tail(fs))

RECURSIVE AccumulatedTrimmed(_)
AccumulatedTrimmed(fs) ==
    IF fs = <<>> THEN <<>>
    ELSE JoinLines(TrimmedLines(Head(fs).payload)) \o AccumulatedTrimmed(Tail(fs))

\* processDockerLogs stands between two frames, or has ended
BetweenFrames == dstate \in {"header", "done"}
\* processDockerLogs met the end of the stream (logs was never closed on it)
ReadToEnd == dstate = "done" /\ logs = "open"

\* C3 (as claimed): between frames the buffer holds exactly the non-empty
\* lines, as they stand in the payloads, of the frames read so far, stdout
\* and stderr alike and in frame order; a stream read to its end has had all
\* its complete frames read, and a frame cut short contributes nothing.
C3_RawLinesAccumulated ==
    /\ BetweenFrames =>
         buildOutput = AccumulatedRaw(SubSeq(frames, 1, framesRead))
    /\ ReadToEnd => framesRead = Len(frames)

\* C3 (amended): between frames the buffer holds, for the frames read so far
\* and in frame order, each line of each payload with its leading and
\* trailing white space removed, the lines that are empty after that left
\* out; a stream read to its end has had all its complete frames read, and a
\* frame cut short contributes nothing.
C3_TrimmedLinesAccumulated ==
    /\ framesRead <= Len(frames)
    /\ BetweenFrames =>
         buildOutput = AccumulatedTrimmed(SubSeq(frames, 1, framesRead))
    /\ ReadToEnd => framesRead = Len(frames)

\* The stream "ok\n" on stdout, "err\n" on stderr, then a frame cut short,
\* read to its end: the buffer holds "ok\nerr\n".
C3_Witness ==
    /\ ReadToEnd
    /\ Len(frames) = 2
    /\ frames[1].stype = 1
    /\ frames[2].stype = 2
    /\ Len(stream) > dpos
    /\ buildOutput = <<111, 107, 10, 101, 114, 114, 10>>

\* The positions of the lines of ls that start with "/nix/store/"
StoreLines(ls) == {i \in 1..Len(ls) : HasPrefix(ls[i], StorePrefix)}
Max(S) == CHOOSE x \in S : \A y \in S : y <= x

\* C4: after an exit with status 0 the path returned is the last line of the
\* accumulated output that starts with "/nix/store/"; when the output has
\* no such line, an error and no path are returned.
C4_LastStorePath ==
    extracted =>
        LET ls == Split(output)
        IN  IF StoreLines(ls) = {}
            THEN ret = Fail
            ELSE ret = Ok(ls[Max(StoreLines(ls))])

\* The output holds two different store paths and the later one is returned.
C4_Witness ==
    /\ extracted
    /\ ~ret.err
    /\ LET ls == Split(output)
       IN  \E i \in StoreLines(ls) : ls[i] # ret.path

\* processDockerLogs will not write to the buffer any more: it has ended, or
\* it stands at a read of logs, which is closed
ReaderQuiet ==
    \/ dstate = "done"
    \/ dstate \in {"header", "payload"} /\ logs = "closed"

\* C5: when the buffer is read to extract the store path, processDockerLogs
\* has stopped writing to it and what is read holds the lines of every frame
\* the container emitted.
C5_ReaderDrainedBeforeExtract ==
    extracted =>
        /\ ReaderQuiet
        /\ output = AccumulatedTrimmed(frames)

\* C6: when buildLocal takes the result line, both readers have ended and
\* have read all the subprocess wrote to stdout and to stderr.
C6_ReadersDrainedBeforeResult ==
    picked =>
        \A s \in Streams :
            /\ rstate[s] = "done"
            /\ pipe[s] = <<>>
            /\ rbuf[s] = <<>>

\* C7: a build that ends with a non-zero exit status, or a container wait
\* that reports an error, makes Build return an error and no path; no result
\* line is taken, no store path is extracted and no image file is looked up.
C7_FailedExitReturnsError ==
    /\ (proc = "exited" /\ exitStatus # 0) =>
         /\ ~picked
         /\ ~looked
         /\ pc = "done" => ret = Fail
    /\ (ran = <<"docker">> /\ ((container = "exited" /\ waitStatus # 0) \/ waitErr)) =>
         /\ ~extracted
         /\ ~looked
         /\ pc = "done" => ret = Fail

\* The container printed a store path, which was accumulated, and exited with
\* status 1: Build returned an error.
C7_Witness ==
    /\ pc = "done"
    /\ container = "exited"
    /\ waitStatus # 0
    /\ ~waitErr
    /\ StoreLines(Split(buildOutput)) # {}
    /\ ret = Fail

-----------------------------------------------------------------------------
(* processDockerComposeImages: the range over the services                 *)

\* services a compose file declares
MaxServices == 2

ServiceNames == {WEB, A_DASH_B, DB}

\* The explicit image references: "redis:7", "a-b", "a_b", "web:latest",
\* "o/web:latest"
ImagePool == {REDIS7, A_DASH_B, A_UNDER_B, WEB_LATEST, ORG_WEB_LATEST}

\* What a service declares: an image; or a build context; or neither; or an
\* image and the build context that produces it
ServiceDefs ==
    [image : ImagePool, build : {FALSE}]
        \cup {[image |-> <<>>, build |-> TRUE],
              [image |-> <<>>, build |-> FALSE],
              [image |-> WEB_LATEST, build |-> TRUE]}

\* strings.ReplaceAll(str, old, new) for one-character old and new
ReplaceAll(str, old, new) ==
    [i \in 1..Len(str) |-> IF str[i] = old THEN new ELSE str[i]]

\* safeImageName without its second replacement, that of ":"
safeImageNameKeepColon(imageName) ==
    ReplaceAll(ReplaceAll(imageName, "/", "_"), "-", "_")

\* safeImageName without its third replacement, that of "-"
safeImageNameKeepDash(imageName) ==
    ReplaceAll(ReplaceAll(imageName, "/", "_"), ":", "_")

\* safeImageName: "/", ":" and "-" each replaced by "_"
safeImageName(imageName) ==
    ReplaceAll(ReplaceAll(ReplaceAll(imageName, "/", "_"), ":", "_"), "-", "_")

\* The DockerImage appended for imageName
DockerImage(imageName) ==
    [Name |-> imageName,
     LocalTag |-> EMBEDDED \o safeImageName(imageName),
     TarPath |-> TMP \o safeImageName(imageName) \o DOT_TAR]

\* The image name of a service: its image, or <name>:latest when it has a
\* build section and no image, or the empty string
ImageNameOf(name, service) ==
    IF service.image # <<>> THEN service.image
    ELSE IF service.build THEN name \o COLON_LATEST
    ELSE <<>>

\* The lookup that never finds the image name
AlreadyMappedNever(seen, imageName) == FALSE

\* imageMap[imageName]
AlreadyMapped(seen, imageName) == imageName \in seen

\* One iteration of the range over project.Services, a map, which Go visits in
\* an order of its own.
ResolveService(name) ==
    /\ resolvePc = "loop"
    /\ name \in todo
    /\ todo' = todo \ {name}
    /\ LET imageName == ImageNameOf(name, services[name])
       IN  IF imageName # <<>> /\ ~AlreadyMapped(imageMap, imageName)
           THEN /\ images' = Append(images, DockerImage(imageName))
                /\ imageMap' = imageMap \cup {imageName}
           ELSE UNCHANGED <<images, imageMap>>
    /\ UNCHANGED <<buildVars, localVars, dockerVars, copyVars, locate, cmdVars, resolvePc, services,
                   dockerImages, embedVars>>

\* dockerConfig.Images = images
ResolveAssign ==
    /\ resolvePc = "loop"
    /\ todo = {}
    /\ dockerImages' = images
    /\ resolvePc' = "assigned"
    /\ UNCHANGED <<buildVars, localVars, dockerVars, copyVars, locate, cmdVars, services, todo, images,
                   imageMap, embedVars>>

-----------------------------------------------------------------------------
(* createModifiedComposeContent                                            *)

UNDER_LATEST == <<"_", "l", "a", "t", "e", "s", "t">>

\* imageMapping[image]: the local tag of the entry of that name, or ""
imageMapping(imgs, image) ==
    IF \E i \in 1..Len(imgs) : imgs[i].Name = image
    THEN imgs[CHOOSE i \in 1..Len(imgs) : imgs[i].Name = image].LocalTag
    ELSE <<>>

\* The rewrite of one service by the second loop of
\* createModifiedComposeContent
RewriteService(imgs, serviceName, service) ==
    IF service.image # <<>> /\ imageMapping(imgs, service.image) # <<>>
    THEN [service EXCEPT !.image = imageMapping(imgs, service.image)]
    ELSE IF service.build
         THEN [image |-> EMBEDDED \o serviceName \o UNDER_LATEST, build |-> FALSE]
         ELSE service

\* The services of the project that yaml.Marshal writes out
createModifiedComposeContent(imgs, project) ==
    [serviceName \in DOMAIN project |->
        RewriteService(imgs, serviceName, project[serviceName])]

MarshalOutcomes == {"ok", "marshalFailed"}

\* createModifiedComposeContent and the test of its error (lines 69-72)
CreateModified(o) ==
    /\ resolvePc = "assigned"
    /\ IF o = "ok"
       THEN /\ modifiedContent' = createModifiedComposeContent(dockerImages, services)
            /\ resolvePc' = "NewClientWithOpts"
       ELSE /\ resolvePc' = "failed"
            /\ UNCHANGED modifiedContent
    /\ UNCHANGED <<buildVars, localVars, dockerVars, copyVars, locate, cmdVars, services, todo, images,
                   imageMap, dockerImages, idx, tagged, archives, embedLog,
                   loadResult>>

-----------------------------------------------------------------------------
(* buildAndSaveDockerImages                                                *)

HasSuffix(s, suffix) ==
    Len(s) >= Len(suffix) /\ SubSeq(s, Len(s) - Len(suffix) + 1, Len(s)) = suffix

\* strings.Contains(s, c) for a one-character c
Contains(s, c) == \E i \in 1..Len(s) : s[i] = c

\* The test of buildOrPullImage without its second conjunct
IsLocalBuildAnyLatest(name) == HasSuffix(name, COLON_LATEST)

\* The test of buildOrPullImage: build locally, or pull
IsLocalBuild(name) == HasSuffix(name, COLON_LATEST) /\ ~Contains(name, "/")

Event(op, name, ok) == [op |-> op, image |-> name, ok |-> ok]

\* The step after image idx has been saved: the next image, or the return
AfterImage ==
    IF idx < Len(dockerImages)
    THEN idx' = idx + 1 /\ resolvePc' = "buildOrPullImage"
    ELSE idx' = idx /\ resolvePc' = "embedded"

\* client.NewClientWithOpts, and the start of the range over the images
EmbedClient(ok) ==
    /\ resolvePc = "NewClientWithOpts"
    /\ IF ~ok
       THEN resolvePc' = "failed" /\ UNCHANGED idx
       ELSE IF dockerImages = <<>>
            THEN resolvePc' = "embedded" /\ UNCHANGED idx
            ELSE resolvePc' = "buildOrPullImage" /\ idx' = 1
    /\ UNCHANGED <<buildVars, localVars, dockerVars, copyVars, locate, cmdVars, services, todo, images,
                   imageMap, dockerImages, modifiedContent, tagged, archives,
                   embedLog, loadResult>>

\* buildOrPullImage: buildLocalImage, whose failure is returned, or the
\* first cli.ImagePull of pullImage, for linux/arm64, whose failure leads to
\* pullDefaultImage
BuildOrPull(ok) ==
    /\ resolvePc = "buildOrPullImage"
    /\ LET name == dockerImages[idx].Name
       IN  IF IsLocalBuild(name)
           THEN /\ embedLog' = Append(embedLog, Event("build", name, ok))
                /\ resolvePc' = IF ok THEN "tagAndSaveImage" ELSE "failed"
           ELSE /\ embedLog' = Append(embedLog, Event("pullArm64", name, ok))
                /\ resolvePc' = IF ok THEN "tagAndSaveImage" ELSE "pullDefaultImage"
    /\ UNCHANGED <<buildVars, localVars, dockerVars, copyVars, locate, cmdVars, services, todo, images,
                   imageMap, dockerImages, modifiedContent, idx, tagged,
                   archives, loadResult>>

\* What pullDefaultImage returns when its cli.ImagePull failed
pullDefaultImageFatal(ok) == IF ok THEN "tagAndSaveImage" ELSE "failed"

\* pullDefaultImage: it returns nil whether its cli.ImagePull failed or not
pullDefaultImage(ok) == "tagAndSaveImage"

PullDefault(ok) ==
    /\ resolvePc = "pullDefaultImage"
    /\ embedLog' = Append(embedLog, Event("pullDefault", dockerImages[idx].Name, ok))
    /\ resolvePc' = pullDefaultImage(ok)
    /\ UNCHANGED <<buildVars, localVars, dockerVars, copyVars, locate, cmdVars, services, todo, images,
                   imageMap, dockerImages, modifiedContent, idx, tagged,
                   archives, loadResult>>

\* tagAndSaveImage that goes on to cli.ImageSave after a failed cli.ImageTag
AfterTagIgnoringError(ok) == "ImageSave"

\* tagAndSaveImage after cli.ImageTag: a failure is returned
AfterTag(ok) == IF ok THEN "ImageSave" ELSE "failed"

\* tagAndSaveImage: cli.ImageTag(ctx, img.Name, img.LocalTag)
TagImage(ok) ==
    /\ resolvePc = "tagAndSaveImage"
    /\ embedLog' = Append(embedLog, Event("tag", dockerImages[idx].Name, ok))
    /\ tagged' = IF ok THEN tagged \cup {dockerImages[idx].LocalTag} ELSE tagged
    /\ resolvePc' = AfterTag(ok)
    /\ UNCHANGED <<buildVars, localVars, dockerVars, copyVars, locate, cmdVars, services, todo, images,
                   imageMap, dockerImages, modifiedContent, idx, archives,
                   loadResult>>

\* cli.ImageSave fails; or os.Create fails; or io.Copy fails, the file
\* existing; or the archive is written
SaveOutcomes == {"saveFailed", "createFailed", "copyFailed", "ok"}

\* tagAndSaveImage: cli.ImageSave and saveImageToFile, then the next image
SaveImage(o) ==
    /\ resolvePc = "ImageSave"
    /\ embedLog' = Append(embedLog, Event("save", dockerImages[idx].Name, o = "ok"))
    /\ archives' = IF o \in {"copyFailed", "ok"}
                   THEN archives \cup {dockerImages[idx].TarPath}
                   ELSE archives
    /\ IF o = "ok"
       THEN AfterImage
       ELSE resolvePc' = "failed" /\ UNCHANGED idx
    /\ UNCHANGED <<buildVars, localVars, dockerVars, copyVars, locate, cmdVars, services, todo, images,
                   imageMap, dockerImages, modifiedContent, tagged, loadResult>>

\* loadConfig after processDockerComposeImages (lines 53-58): nil and an
\* error, or the SproutFile
LoadReturn ==
    /\ resolvePc \in {"failed", "embedded"}
    /\ loadResult' = IF resolvePc = "failed" THEN "error" ELSE "config"
    /\ resolvePc' = "returned"
    /\ UNCHANGED <<buildVars, localVars, dockerVars, copyVars, locate, cmdVars, services, todo, images,
                   imageMap, dockerImages, modifiedContent, idx, tagged,
                   archives, embedLog>>

InitResolve ==
    /\ pc = "idle"
    /\ disableEnv = <<>>
    /\ nixOnPath = FALSE
    /\ BackendsIdle
    /\ CopyIdle
    /\ LocateIdle
    /\ CmdIdle
    /\ resolvePc = "loop"
    /\ \E S \in SUBSET ServiceNames :
         /\ Cardinality(S) \in 1..MaxServices
         /\ services \in [S -> ServiceDefs]
         /\ todo = S
    /\ images = <<>>
    /\ imageMap = {}
    /\ dockerImages = <<>>
    /\ EmbedIdle

NextResolve ==
    \/ \E name \in ServiceNames : ResolveService(name)
    \/ ResolveAssign
    \/ \E o \in MarshalOutcomes : CreateModified(o)
    \/ \E ok \in BOOLEAN : EmbedClient(ok)
    \/ \E ok \in BOOLEAN : BuildOrPull(ok)
    \/ \E ok \in BOOLEAN : PullDefault(ok)
    \/ \E ok \in BOOLEAN : TagImage(ok)
    \/ \E o \in SaveOutcomes : SaveImage(o)
    \/ LoadReturn

SpecResolve == InitResolve /\ [][NextResolve]_vars

-----------------------------------------------------------------------------
(* Properties of the resolution                                            *)

\* The canonical references of the services: the explicit image, or
\* <service name>:latest for a service with a build context and no image
Canonical(name) ==
    IF services[name].image # <<>> THEN services[name].image
    ELSE IF services[name].build THEN name \o COLON_LATEST
    ELSE <<>>
Canonicals == {Canonical(name) : name \in DOMAIN services} \ {<<>>}
Visited == DOMAIN services \ todo

\* C9: the resolver yields exactly one entry per distinct canonical
\* reference of the services: M entries for M distinct references, however
\* many services share a reference.
C9_OneEntryPerReference ==
    /\ \A i, j \in 1..Len(images) : images[i].Name = images[j].Name => i = j
    /\ {images[i].Name : i \in 1..Len(images)}
           = {Canonical(name) : name \in Visited} \ {<<>>}
    /\ resolvePc = "assigned" =>
         /\ Len(dockerImages) = Cardinality(Canonicals)
         /\ {dockerImages[i].Name : i \in 1..Len(dockerImages)} = Canonicals

\* Two services share a reference: two services, one entry.
C9_Witness ==
    /\ resolvePc = "assigned"
    /\ Cardinality(DOMAIN services) = 2
    /\ \A name \in DOMAIN services : Canonical(name) # <<>>
    /\ Len(dockerImages) = 1

\* C10 (as claimed): no two entries of the image list have the same local
\* tag, nor the same archive path.
C10_LocalTagsUnique ==
    \A i, j \in 1..Len(dockerImages) :
        i # j => /\ dockerImages[i].LocalTag # dockerImages[j].LocalTag
                 /\ dockerImages[i].TarPath # dockerImages[j].TarPath

\* The sanitised form of a reference
Sanitised(ref) ==
    [i \in 1..Len(ref) |-> IF ref[i] \in {"/", ":", "-"} THEN "_" ELSE ref[i]]

\* C10 (amended): two entries of the image list have the same local tag, and
\* the same archive path, exactly when their canonical references have the
\* same sanitised form; entries whose references differ after the
\* replacement of "/", ":" and "-" by "_" have different local tags.
C10_LocalTagsUniqueUpToSanitising ==
    \A i, j \in 1..Len(dockerImages) :
        LET same == Sanitised(dockerImages[i].Name) = Sanitised(dockerImages[j].Name)
        IN  /\ dockerImages[i].LocalTag = dockerImages[j].LocalTag <=> same
            /\ dockerImages[i].TarPath = dockerImages[j].TarPath <=> same

\* Two entries with different references and one local tag, and two entries
\* with different local tags, are both reached; this is the first.
C10_Witness ==
    /\ resolvePc = "assigned"
    /\ Len(dockerImages) = 2
    /\ dockerImages[1].Name # dockerImages[2].Name
    /\ dockerImages[1].LocalTag = dockerImages[2].LocalTag

-----------------------------------------------------------------------------
(* Properties of the rewritten specification                               *)

\* ModifiedContent has been written
Rewritten == DOMAIN modifiedContent # {}

\* The entries of dockerConfig.Images for a canonical reference
EntriesOf(ref) == {i \in 1..Len(dockerImages) : dockerImages[i].Name = ref}

\* C11: in the rewritten specification, the image of every service that has a
\* canonical reference is the local tag of the entry of dockerConfig.Images
\* for that reference, the tag under which the image is tagged and exported,
\* for services with an image and for services with only a build context.
C11_RewrittenImageIsLocalTag ==
    Rewritten =>
        \A name \in DOMAIN services :
            Canonical(name) # <<>> =>
                \E i \in EntriesOf(Canonical(name)) :
                    modifiedContent[name].image = dockerImages[i].LocalTag

\* C12: in the rewritten specification no service has a build context left,
\* whether or not the service also declared an image.
C12_NoBuildContextRetained ==
    Rewritten => \A name \in DOMAIN modifiedContent : ~modifiedContent[name].build

\* C13: the local tag and the archive path of an entry depend on its
\* canonical reference alone, whatever the order of the services and whatever
\* the other services: they are the namespace, or /tmp/, followed by the
\* reference with "/", ":" and "-" replaced by "_"; the replacement applied
\* to its own result changes nothing; and two entries whose references have
\* the same sanitised form have the same local tag.
C13_LocalTagPureIdempotent ==
    /\ \A i \in 1..Len(images) :
        /\ images[i].LocalTag = EMBEDDED \o Sanitised(images[i].Name)
        /\ images[i].TarPath = TMP \o Sanitised(images[i].Name) \o DOT_TAR
        /\ safeImageName(safeImageName(images[i].Name)) = safeImageName(images[i].Name)
    /\ \A i, j \in 1..Len(images) :
        Sanitised(images[i].Name) = Sanitised(images[j].Name)
            => images[i].LocalTag = images[j].LocalTag

\* "a_b" was met before "a-b", and "redis:7" before either in other runs:
\* here the two references with one sanitised form, in this order.
C13_Witness ==
    /\ Len(images) = 2
    /\ images[1].Name = A_UNDER_B
    /\ images[2].Name = A_DASH_B
    /\ images[1].LocalTag = images[2].LocalTag

-----------------------------------------------------------------------------
(* Properties of the embedding                                             *)

EndsInLatest(ref) == \E n \in 0..Len(ref) : ref = SubSeq(ref, 1, n) \o COLON_LATEST
NoSeparator(ref) == \A i \in 1..Len(ref) : ref[i] # "/"
Pulls == {"pullArm64", "pullDefault"}
Acquires == {"build"} \cup Pulls

\* The images whose acquisition has been attempted
Attempted == 1..(IF resolvePc = "buildOrPullImage" THEN idx - 1 ELSE idx)

\* C14: an image is built with docker-compose, and never pulled, exactly when
\* its canonical reference ends in ":latest" and contains no "/"; every other
\* image is pulled and never built; every image reached is one or the other.
C14_BuildExactlyLatestWithoutSeparator ==
    /\ \A k \in 1..Len(embedLog) :
        LET e == embedLog[k]
            synthetic == EndsInLatest(e.image) /\ NoSeparator(e.image)
        IN  /\ e.op = "build" => synthetic
            /\ e.op \in Pulls => ~synthetic
    /\ \A i \in Attempted :
        \E k \in 1..Len(embedLog) :
            embedLog[k].op \in Acquires /\ embedLog[k].image = dockerImages[i].Name

\* One service with the image redis:7 and one with only a build context: two
\* entries, redis:7 pulled and <service>:latest built.
C14_Witness ==
    /\ resolvePc = "embedded"
    /\ \E a, b \in DOMAIN services :
        /\ DOMAIN services = {a, b}
        /\ services[a] = [image |-> REDIS7, build |-> FALSE]
        /\ services[b] = [image |-> <<>>, build |-> TRUE]
        /\ Len(dockerImages) = 2
        /\ \E k, l \in 1..Len(embedLog) :
            /\ embedLog[k] = Event("pullArm64", REDIS7, TRUE)
            /\ embedLog[l] = Event("build", b \o COLON_LATEST, TRUE)

\* C15: a pull without platform constraint is made only right after the
\* failed ARM64 pull of the same image; after a failed ARM64 pull comes that
\* second pull and nothing else; after the second pull, failed or not, comes
\* the tagging of the image, no error being returned; no call is made twice
\* for an image, so there are at most two pulls per image.
C15_PullFallback ==
    /\ \A k \in 1..Len(embedLog) :
        LET e == embedLog[k]
        IN  /\ e.op = "pullDefault" =>
                  k > 1 /\ embedLog[k-1] = Event("pullArm64", e.image, FALSE)
            /\ e.op = "pullArm64" /\ k < Len(embedLog) =>
                  /\ embedLog[k+1].image = e.image
                  /\ embedLog[k+1].op = IF e.ok THEN "tag" ELSE "pullDefault"
            /\ e.op = "pullDefault" /\ k < Len(embedLog) =>
                  /\ embedLog[k+1].image = e.image
                  /\ embedLog[k+1].op = "tag"
            /\ e.op = "pullDefault" /\ k = Len(embedLog) =>
                  resolvePc = "tagAndSaveImage"
    /\ \A k, l \in 1..Len(embedLog) :
        embedLog[k].op = embedLog[l].op /\ embedLog[k].image = embedLog[l].image
            => k = l

\* Both pulls of an image failed, the image was tagged and exported and the
\* configuration returned.
C15_Witness ==
    /\ loadResult = "config"
    /\ \E k \in 1..Len(embedLog) :
        /\ k + 3 <= Len(embedLog)
        /\ embedLog[k].op = "pullArm64" /\ ~embedLog[k].ok
        /\ embedLog[k+1].op = "pullDefault" /\ ~embedLog[k+1].ok
        /\ embedLog[k+2].op = "tag" /\ embedLog[k+2].ok
        /\ embedLog[k+3].op = "save" /\ embedLog[k+3].ok

\* C16: a failed tag or a failed export is the last call of the embedding:
\* the embedder has returned an error, and loadConfig returns an error and no
\* configuration; an export comes right after the successful tag of the same
\* image, and a tag right after the acquisition of the same image returned
\* without error.
C16_TagOrExportFailureFatal ==
    \A k \in 1..Len(embedLog) :
        LET e == embedLog[k]
        IN  /\ e.op \in {"tag", "save"} /\ ~e.ok =>
                  /\ k = Len(embedLog)
                  /\ resolvePc \in {"failed", "returned"}
                  /\ loadResult # "config"
                  /\ resolvePc = "returned" => loadResult = "error"
            /\ e.op = "save" =>
                  k > 1 /\ embedLog[k-1] = Event("tag", e.image, TRUE)
            /\ e.op = "tag" =>
                  /\ k > 1
                  /\ embedLog[k-1].image = e.image
                  /\ \/ embedLog[k-1].op \in {"build", "pullArm64"} /\ embedLog[k-1].ok
                     \/ embedLog[k-1].op = "pullDefault"

\* The tag of the first of two images failed: the load returned an error and
\* nothing was done for the second image.
C16_Witness ==
    /\ loadResult = "error"
    /\ Len(dockerImages) = 2
    /\ embedLog # <<>>
    /\ embedLog[Len(embedLog)] = Event("tag", dockerImages[1].Name, FALSE)
    /\ \A k \in 1..Len(embedLog) : embedLog[k].image # dockerImages[2].Name

\* C17: whenever the rewritten content is non-empty, every resolved image has
\* been acquired, tagged and exported successfully.
C17_RewrittenOnlyAfterEmbedding ==
    Rewritten =>
        \A i \in 1..Len(dockerImages) :
            \E k, l \in 1..Len(embedLog) :
                /\ embedLog[k] = Event("tag", dockerImages[i].Name, TRUE)
                /\ embedLog[l] = Event("save", dockerImages[i].Name, TRUE)

-----------------------------------------------------------------------------
(* The specification of buildWithDocker up to the start of the container,  *)
(* for the sproutFiles that loadConfig returns                             *)

\* The image names of the sproutFiles: "redis:7", "a-b", "a_b", "x", "x.tar"
CopyNames == {REDIS7, A_DASH_B, A_UNDER_B, X, X_TAR}

\* dockerConfig.Images as processDockerComposeImages leaves it: one entry per
\* name
CopyImageListsOf(n) ==
    {[i \in 1..n |-> DockerImage(names[i])] :
        names \in {f \in [1..n -> CopyNames] : \A i, j \in 1..n : f[i] = f[j] => i = j}}

\* The nix file that GenerateImage renders for a list of images mentions the
\* archive path of each of them
RECURSIVE Render(_)
Render(imgs) ==
    IF imgs = <<>> THEN <<>>
    ELSE <<"(">> \o Head(imgs).TarPath \o <<")">> \o Render(Tail(imgs))

RenderedInputs(imgs) == {Render(imgs), Render(imgs) \o Render(imgs)}

InitCopy ==
    /\ pc = "Build"
    /\ disableEnv = <<49>>
    /\ nixOnPath \in BOOLEAN
    /\ BackendsIdle
    /\ LocateIdle
    /\ CmdIdle
    /\ ResolveIdle
    /\ \/ /\ sproutFile = [Enabled |-> FALSE, Images |-> <<>>]
          /\ rendered = <<>>
          /\ hostArchives = {}
       \/ \E imgs \in UNION {CopyImageListsOf(n) : n \in 0..MaxCopyImages} :
             /\ sproutFile = [Enabled |-> TRUE, Images |-> imgs]
             /\ rendered \in RenderedInputs(imgs)
             /\ hostArchives \in SUBSET {imgs[i].TarPath : i \in 1..Len(imgs)}
    /\ nixFile = <<>>
    /\ workdir = {}

NextCopy ==
    \/ Build
    \/ DockerPrepare
    \/ CopyDockerImages
    \/ DockerSetup
    \/ ContainerCreate
    \/ ContainerStart

SpecCopy == InitCopy /\ [][NextCopy]_vars

\* text occurs in str
Occurs(text, str) ==
    \E k \in 1..(Len(str) - Len(text) + 1) : SubSeq(str, k, k + Len(text) - 1) = text

\* The archive file name of a resolved image
ArchiveName(img) == Sanitised(img.Name) \o DOT_TAR

\* C18: when the container has been started, the working directory holds the
\* rendered input and the archive of every resolved image, and the rendered
\* input in it mentions /workspace/<archive file name> for every image and
\* the host path of no image's archive.
C18_ArchivesCopiedAndRewritten ==
    container = "running" =>
        /\ IMAGE_NIX \in workdir
        /\ \A i \in 1..Len(sproutFile.Images) :
            LET img == sproutFile.Images[i]
            IN  /\ ArchiveName(img) \in workdir
                /\ Occurs(WORKSPACE \o ArchiveName(img), nixFile)
                /\ ~Occurs(img.TarPath, nixFile)

\* The same, for the images whose archive exists under /tmp when Build runs
C18_ExistingArchivesCopiedAndRewritten ==
    container = "running" =>
        /\ IMAGE_NIX \in workdir
        /\ \A i \in 1..Len(sproutFile.Images) :
            LET img == sproutFile.Images[i]
            IN  img.TarPath \in hostArchives =>
                    /\ ArchiveName(img) \in workdir
                    /\ Occurs(WORKSPACE \o ArchiveName(img), nixFile)
                    /\ ~Occurs(img.TarPath, nixFile)

-----------------------------------------------------------------------------
(* The specification of one call of FindImageFile                          *)

InitLocate ==
    /\ pc = "idle"
    /\ disableEnv = <<>>
    /\ nixOnPath = FALSE
    /\ BackendsIdle
    /\ CopyIdle
    /\ CmdIdle
    /\ ResolveIdle
    /\ \E path \in LocatePaths, kind \in BackendKinds, fs \in FileSystems :
        locate = [path |-> path, kind |-> kind, fs |-> fs, called |-> FALSE,
                  result |-> NoRet, probes |-> {}]

\* The call FindImageFile(path) of the backend or of its caller
Locate ==
    /\ ~locate.called
    /\ LET r == FindImageFile(locate.fs, locate.path)
       IN  locate' = [locate EXCEPT !.called = TRUE, !.result = r.res,
                                    !.probes = r.probes]
    /\ UNCHANGED <<buildVars, localVars, dockerVars, copyVars, cmdVars, resolveVars>>

NextLocate == Locate

SpecLocate == InitLocate /\ [][NextLocate]_vars

EndsInImg(path) ==
    Len(path) >= 4 /\ SubSeq(path, Len(path) - 3, Len(path)) = DOT_IMG

\* C19 (as claimed): given a path that ends in ".img", FindImageFile returns
\* the path unchanged and probes nothing under it.
C19_ImgPathReturnedUnchanged ==
    locate.called /\ EndsInImg(locate.path) =>
        locate.result = Ok(locate.path) /\ locate.probes = {}

\* C19 (amended): given a path that ends in ".img" and names an existing
\* file that is not a directory, FindImageFile returns the path unchanged and
\* probes nothing under it.
C19_ExistingImgFileReturnedUnchanged ==
    locate.called /\ EndsInImg(locate.path) /\ locate.fs.kind = "file" =>
        locate.result = Ok(locate.path) /\ locate.probes = {}

\* FindImageFile was given the existing file /n/s.img and returned it.
C19_Witness ==
    /\ locate.called
    /\ EndsInImg(locate.path)
    /\ ~ContainsString(locate.path, SPROUT_DOCKER)
    /\ locate.fs.kind = "file"
    /\ locate.result = Ok(locate.path)

\* The result.img convention of Containerized results
ByResultImg(fs, path) ==
    IF fs.kind = "file" /\ BaseName(path) = RESULT_IMG THEN Ok(path)
    ELSE IF fs.kind = "dir" /\ fs.resultImg THEN Ok(path \o <<SLASH>> \o RESULT_IMG)
    ELSE Fail

\* The sd-image convention of Local results: the first file of the sd-image
\* subdirectory that has the extension .img
BySdImage(fs, path) ==
    LET imgs == {k \in 1..Len(fs.entries) :
                    ~fs.entries[k].dir /\ EndsInImg(fs.entries[k].name)}
    IN  IF fs.kind = "dir" /\ fs.sdImage = "dir" /\ imgs # {}
        THEN Ok(path \o <<SLASH>> \o SD_IMAGE \o <<SLASH>>
                    \o fs.entries[CHOOSE k \in imgs : \A l \in imgs : k <= l].name)
        ELSE Fail

\* C20: the locator dispatches on the kind of the backend that produced the
\* result and not on the text of the path: apart from an existing .img file,
\* which is returned as it is, a Containerized result is resolved by the
\* result.img convention and a Local result by the sd-image convention.
C20_DispatchOnBackendKind ==
    locate.called =>
        locate.result =
            IF locate.fs.kind = "missing" THEN Fail
            ELSE IF locate.fs.kind = "file" /\ EndsInImg(locate.path)
                 THEN Ok(locate.path)
            ELSE IF locate.kind = "Containerized"
                 THEN ByResultImg(locate.fs, locate.path)
                 ELSE BySdImage(locate.fs, locate.path)

\* The entries of the sd-image subdirectory that are files with the
\* extension .img
ImgEntries(fs) ==
    IF fs.kind = "dir" /\ fs.sdImage = "dir"
    THEN {k \in 1..Len(fs.entries) :
            ~fs.entries[k].dir /\ EndsInImg(fs.entries[k].name)}
    ELSE {}

\* C21: for a Local result that is a directory or does not exist, the
\* locator succeeds only when the sd-image subdirectory holds exactly one
\* file with the extension .img, and then returns that file; it returns an
\* error and no path when the path does not exist, when there is no sd-image
\* subdirectory and when the subdirectory holds no such file.
C21_SdImageExactlyOne ==
    locate.called /\ locate.kind = "Local" /\ locate.fs.kind # "file" =>
        LET imgs == ImgEntries(locate.fs)
        IN  /\ ~locate.result.err =>
                /\ Cardinality(imgs) = 1
                /\ \A k \in imgs :
                    locate.result.path =
                        locate.path \o <<SLASH>> \o SD_IMAGE \o <<SLASH>>
                            \o locate.fs.entries[k].name
            /\ imgs = {} => locate.result = Fail

-----------------------------------------------------------------------------
(* The contract of the two backends                                        *)

\* C22: on success either backend returns the store path that the build
\* printed, without looking the artifact up itself: the Local backend the
\* last line of nix-build's standard output, the Containerized backend the
\* store path extracted from the container's log.
C22_BackendsReturnReportedPath ==
    pc = "done" /\ ~ret.err =>
        /\ ~looked
        /\ ran = <<"local">> => ret.path = buildResult
        /\ ran = <<"docker">> => HasPrefix(ret.path, StorePrefix)


(***************************************************************************)
(* runGrow (internal/cmd/grow.go): the steps of one run of the grow        *)
(* command in the order of the code, and copyFileWithProgress.             *)
(*                                                                         *)
(* grow.log is the history of the steps taken, each with its outcome.      *)
(* grow.outputDir tells whether the parent directory of the output path    *)
(* exists, grow.dst is the file at the output path, grow.src the bytes of  *)
(* the located image, grow.wrote the bytes destFile.Write wrote (history). *)
(***************************************************************************)
MaxSrcLen == 3
MaxRead == 2

\* The calls of runGrow that precede the copy, in the order of the code
GrowSteps ==
    <<"Getwd", "Stat", "LoadConfigFromYAML", "GenerateImage", "CreateTemp",
      "WriteString", "Build", "MkdirAll", "findImageFile">>

\* The image files there may be to copy
SrcFiles == {[k \in 1..n |-> k] : n \in 0..MaxSrcLen}

NoFile == [exists |-> FALSE, bytes |-> <<>>]
\* What may be at the output path before the run: nothing, or an older image
DstFiles == {NoFile, [exists |-> TRUE, bytes |-> <<9, 9>>]}

Logged(step, ok) == [step |-> step, ok |-> ok]

GrowReturn(g, step, ok) == [g EXCEPT !.pc = "done", !.err = ~ok, !.log = Append(@, Logged(step, ok))]

InitGrow ==
    /\ pc = "idle" /\ disableEnv = <<>> /\ nixOnPath = FALSE
    /\ ran = <<>> /\ ret = Ok(<<>>)
    /\ BackendsIdle
    /\ CopyIdle
    /\ LocateIdle
    /\ ResolveIdle
    /\ TimerIdle /\ DisplayIdle /\ LoadIdle /\ BurnIdle
    /\ \E dir \in BOOLEAN, d \in DstFiles, sf \in SrcFiles :
          /\ d.exists => dir
          /\ grow = [pc |-> "Getwd", log |-> <<>>, err |-> FALSE,
                     outputDir |-> dir, dst |-> d, src |-> sf,
                     off |-> 0, totalCopied |-> 0, fileSize |-> 0, wrote |-> <<>>]

\* One of the calls of runGrow before the copy (lines 30-116): when it fails
\* runGrow returns the error, otherwise the next call follows.  os.MkdirAll
\* (line 106) comes before findImageFile (line 113).
GrowStep(ok) ==
    /\ grow # <<>>
    /\ \E k \in 1..Len(GrowSteps) :
          /\ grow.pc = GrowSteps[k]
          /\ IF ~ok
             THEN grow' = GrowReturn(grow, GrowSteps[k], FALSE)
             ELSE grow' = [grow EXCEPT
                      !.pc = IF k < Len(GrowSteps) THEN GrowSteps[k + 1] ELSE "Open",
                      !.log = Append(@, Logged(GrowSteps[k], TRUE)),
                      !.outputDir = @ \/ GrowSteps[k] = "MkdirAll"]
    /\ UNCHANGED <<buildVars, localVars, dockerVars, copyVars, locate, resolveVars,
                   timedOut, display, load, burn>>

\* copyFileWithProgress, os.Open and sourceFile.Stat (lines 224-235)
CopyOpen(ok) ==
    /\ grow # <<>> /\ grow.pc = "Open"
    /\ grow' = IF ok THEN [grow EXCEPT !.pc = "Create", !.fileSize = Len(grow.src),
                                       !.log = Append(@, Logged("Open", TRUE))]
               ELSE GrowReturn(grow, "Open", FALSE)
    /\ UNCHANGED <<buildVars, localVars, dockerVars, copyVars, locate, resolveVars,
                   timedOut, display, load, burn>>

\* os.Create (lines 237-240) creates the file or truncates the one there is
CopyCreate(ok) ==
    /\ grow # <<>> /\ grow.pc = "Create"
    /\ ok => grow.outputDir
    /\ grow' = IF ok THEN [grow EXCEPT !.pc = "Read", !.dst = [exists |-> TRUE, bytes |-> <<>>],
                                       !.log = Append(@, Logged("Create", TRUE))]
               ELSE GrowReturn(grow, "Create", FALSE)
    /\ UNCHANGED <<buildVars, localVars, dockerVars, copyVars, locate, resolveVars,
                   timedOut, display, load, burn>>

\* What the file holds once Write has written the first m bytes of chunk:
\* destFile's offset advances, so they follow the bytes written before
WriteToAtStart(file, chunk, m) == [file EXCEPT !.bytes = SubSeq(chunk, 1, m)]
WriteTo(file, chunk, m) == [file EXCEPT !.bytes = @ \o SubSeq(chunk, 1, m)]

\* One turn of the copy loop (lines 249-273): Read gives n bytes, or none
\* and io.EOF at the end of the file, or an error; the n bytes are written
\* and counted; a failing Write may have written the first m of them.
CopyLoop(n, readOk, m) ==
    /\ grow # <<>> /\ grow.pc = "Read"
    /\ n \in 0..MaxRead /\ n <= Len(grow.src) - grow.off
    /\ m \in 0..n
    /\ LET chunk == SubSeq(grow.src, grow.off + 1, grow.off + n)
           eof == n = 0 /\ grow.off = Len(grow.src)
       IN  IF n > 0
           THEN /\ readOk
                /\ IF m = n
                   THEN grow' = [grow EXCEPT !.dst = WriteTo(@, chunk, n),
                                             !.wrote = @ \o chunk,
                                             !.off = @ + n,
                                             !.totalCopied = @ + n]
                   ELSE grow' = [GrowReturn(grow, "Write", FALSE) EXCEPT
                                             !.dst = WriteTo(@, chunk, m),
                                             !.wrote = @ \o SubSeq(chunk, 1, m)]
           ELSE /\ m = 0
                /\ IF readOk
                   THEN /\ eof
                        /\ grow' = GrowReturn(grow, "copyFileWithProgress", TRUE)
                   ELSE grow' = GrowReturn(grow, "Read", FALSE)
    /\ UNCHANGED <<buildVars, localVars, dockerVars, copyVars, locate, resolveVars,
                   timedOut, display, load, burn>>

NextGrow ==
    \/ \E ok \in BOOLEAN : GrowStep(ok)
    \/ \E ok \in BOOLEAN : CopyOpen(ok)
    \/ \E ok \in BOOLEAN : CopyCreate(ok)
    \/ \E n \in 0..MaxRead, readOk \in BOOLEAN, m \in 0..MaxRead : CopyLoop(n, readOk, m)

SpecGrow == InitGrow /\ [][NextGrow]_vars

\* The phase of section 2 of the specification that a call of runGrow
\* belongs to, and the place of the phase in the order Config, Resolve,
\* Embed, Render, Select+Execute, Locate, Deliver.  LoadConfigFromYAML is
\* Config, Resolve and Embed in one call; creating the parent directories
\* of the destination is part of Deliver.
PhaseRank(step) ==
    CASE step \in {"Getwd", "Stat"} -> 1
      [] step = "LoadConfigFromYAML" -> 3
      [] step \in {"GenerateImage", "CreateTemp", "WriteString"} -> 4
      [] step = "Build" -> 5
      [] step = "findImageFile" -> 6
      [] OTHER -> 7

Did(step) == Logged(step, TRUE) \in {grow.log[k] : k \in DOMAIN grow.log}

\* C23: the calls of one run follow the order of the phases, each after the
\* success of all calls before it and none twice, and the output directory
\* is created and the output file written only after the image was located.
C23_PhasesInOrder ==
    grow # <<>> =>
        /\ \A j, k \in DOMAIN grow.log :
              j < k => /\ grow.log[j].ok
                       /\ grow.log[j].step # grow.log[k].step
                       /\ PhaseRank(grow.log[j].step) <= PhaseRank(grow.log[k].step)
        /\ Did("MkdirAll") \/ Did("Create") => Did("findImageFile")

LastStep == grow.log[Len(grow.log)].step

\* C26: the copy is made into a directory that MkdirAll created; when the
\* run succeeds the output file holds the bytes of the source and the byte
\* count is the size of the source; when Read or Write fails in the loop
\* the run fails and the output file stays, holding the bytes written.
C26_Delivery ==
    grow # <<>> /\ grow.pc = "done" /\ Did("Open") =>
        /\ Did("MkdirAll") /\ grow.outputDir
        /\ ~grow.err =>
              /\ grow.dst = [exists |-> TRUE, bytes |-> grow.src]
              /\ grow.totalCopied = Len(grow.src)
              /\ grow.totalCopied = grow.fileSize
        /\ LastStep \in {"Read", "Write"} =>
              /\ grow.err
              /\ grow.dst = [exists |-> TRUE, bytes |-> grow.wrote]
              /\ grow.wrote = SubSeq(grow.src, 1, Len(grow.wrote))

\* a Write failed after a part of the image was written
C26_Witness ==
    /\ grow # <<>> /\ grow.pc = "done" /\ LastStep = "Write"
    /\ grow.wrote # <<>> /\ Len(grow.wrote) < Len(grow.src)

\* an image of more than one buffer was copied over an older output file
C26_Copied ==
    /\ grow # <<>> /\ grow.pc = "done" /\ ~grow.err
    /\ Len(grow.src) > MaxRead

\* C24: once the deadline has passed while nix-build or the container was
\* running, the subprocess writes no more output, the container emits no
\* more frames, neither of them runs on to its own exit, and Build returns
\* an error.
C24_NothingRunsPastTheDeadline ==
    [][timedOut =>
          /\ written' = written
          /\ frames' = frames
          /\ proc = "running" => proc' # "exited"
          /\ container = "running" => container' # "exited"
          /\ pc' = "done" /\ pc # "done" => ret'.err]_vars

(***************************************************************************)
(* The rolling display (nix/display.go).  The two pipe readers call        *)
(* displayStreamingLine, the goroutine of the build calls                  *)
(* finishStreamingDisplay; every step after Lock is taken by the holder of *)
(* displayMutex, and the last step of a call releases it (the deferred     *)
(* Unlock).  display.writes is the history of the non-empty lines stored   *)
(* since the last finish, display.screen the four rows as last drawn.      *)
(***************************************************************************)
DisplaySize == 4
MaxCalls == 6

Callers == {"stdout", "stderr"}
Finisher == "main"

\* The line of the n-th call: each call has a line of its own, or the empty one
LineOf(n) == <<"line", n>>
EmptyLine == <<>>

Slots == 0..(DisplaySize - 1)
NoLines == [k \in Slots |-> EmptyLine]

InitDisplay ==
    /\ pc = "idle" /\ disableEnv = <<>> /\ nixOnPath = FALSE
    /\ ran = <<>> /\ ret = Ok(<<>>)
    /\ BackendsIdle
    /\ CopyIdle
    /\ LocateIdle
    /\ ResolveIdle
    /\ TimerIdle /\ GrowIdle /\ LoadIdle /\ BurnIdle
    /\ display = [displayLines |-> NoLines, displayIndex |-> 0,
                  displayInitialized |-> FALSE, displayMutex |-> "free",
                  at |-> [c \in Callers \cup {Finisher} |-> "idle"],
                  line |-> [c \in Callers |-> EmptyLine],
                  calls |-> 0, screen |-> NoLines, writes |-> <<>>]

\* displayMutex.Lock() in a call of displayStreamingLine(line, color), line 16
DisplayLock(c, empty) ==
    /\ display # <<>> /\ c \in Callers
    /\ display.at[c] = "idle" /\ display.displayMutex = "free"
    /\ display.calls < MaxCalls
    /\ display' = [display EXCEPT !.displayMutex = c, !.at[c] = "locked",
                                  !.calls = @ + 1,
                                  !.line[c] = IF empty THEN EmptyLine ELSE LineOf(display.calls + 1)]
    /\ UNCHANGED <<buildVars, localVars, dockerVars, copyVars, locate, resolveVars,
                   timedOut, grow, load, burn>>

\* lines 19-30: an empty line returns at once; the first line of a display
\* reserves the four rows
DisplayCheck(c) ==
    /\ display # <<>> /\ c \in Callers /\ display.at[c] = "locked"
    /\ IF display.line[c] = EmptyLine
       THEN display' = [display EXCEPT !.displayMutex = "free", !.at[c] = "idle"]
       ELSE display' = [display EXCEPT !.displayInitialized = TRUE, !.at[c] = "store"]
    /\ UNCHANGED <<buildVars, localVars, dockerVars, copyVars, locate, resolveVars,
                   timedOut, grow, load, burn>>

NextIndexUnwrapped(index) == index + 1
NextIndex(index) == (index + 1) % DisplaySize

\* lines 32-33
DisplayStore(c) ==
    /\ display # <<>> /\ c \in Callers /\ display.at[c] = "store"
    /\ display' = [display EXCEPT !.displayLines[display.displayIndex] = display.line[c],
                                  !.displayIndex = NextIndex(@),
                                  !.writes = Append(@, display.line[c]),
                                  !.at[c] = "draw"]
    /\ UNCHANGED <<buildVars, localVars, dockerVars, copyVars, locate, resolveVars,
                   timedOut, grow, load, burn>>

\* The four rows that the loop of lines 35-45 prints, top to bottom
Rows(lines, index) == [k \in Slots |-> lines[(index + k) % DisplaySize]]

\* lines 35-47: the redraw, then the deferred Unlock
DisplayDraw(c) ==
    /\ display # <<>> /\ c \in Callers /\ display.at[c] = "draw"
    /\ display' = [display EXCEPT !.screen = Rows(display.displayLines, display.displayIndex),
                                  !.displayMutex = "free", !.at[c] = "idle"]
    /\ UNCHANGED <<buildVars, localVars, dockerVars, copyVars, locate, resolveVars,
                   timedOut, grow, load, burn>>

\* displayMutex.Lock() in finishStreamingDisplay, line 50
FinishLock ==
    /\ display # <<>>
    /\ display.at[Finisher] = "idle" /\ display.displayMutex = "free"
    /\ display.calls > 0
    /\ display' = [display EXCEPT !.displayMutex = Finisher, !.at[Finisher] = "locked"]
    /\ UNCHANGED <<buildVars, localVars, dockerVars, copyVars, locate, resolveVars,
                   timedOut, grow, load, burn>>

\* lines 53-61
FinishDisplay ==
    /\ display # <<>> /\ display.at[Finisher] = "locked"
    /\ display' = [display EXCEPT
                     !.displayInitialized = FALSE,
                     !.displayIndex = IF display.displayInitialized THEN 0 ELSE @,
                     !.displayLines = IF display.displayInitialized THEN NoLines ELSE @,
                     !.writes = <<>>,
                     !.displayMutex = "free", !.at[Finisher] = "idle"]
    /\ UNCHANGED <<buildVars, localVars, dockerVars, copyVars, locate, resolveVars,
                   timedOut, grow, load, burn>>

NextDisplay ==
    \/ \E c \in Callers, empty \in BOOLEAN : DisplayLock(c, empty)
    \/ \E c \in Callers : DisplayCheck(c)
    \/ \E c \in Callers : DisplayStore(c)
    \/ \E c \in Callers : DisplayDraw(c)
    \/ FinishLock
    \/ FinishDisplay

SpecDisplay == InitDisplay /\ [][NextDisplay]_vars

\* The last n lines stored since the last finish, oldest first, after the
\* empty rows that are left of the DisplaySize
LastWrites(n) ==
    LET k == Len(display.writes)
        shown == IF k < n THEN k ELSE n
    IN  [r \in Slots |-> IF r < DisplaySize - shown THEN EmptyLine
                         ELSE display.writes[k - (DisplaySize - 1 - r)]]

InCall(c) == display.at[c] # "idle"

\* C25: one caller at a time is between Lock and Unlock; the write index is
\* within 0..3; whenever no call is in progress the buffer, read from the
\* write index on, holds the last min(k,4) of the k lines stored since the
\* last finish, oldest first, and the rows last drawn are these lines; an
\* empty line is never stored.
C25_RingBufferUnderLock ==
    display # <<>> =>
        /\ \A a, b \in Callers \cup {Finisher} : InCall(a) /\ InCall(b) => a = b
        /\ \A c \in Callers \cup {Finisher} : InCall(c) => display.displayMutex = c
        /\ display.displayIndex \in Slots
        /\ \A k \in DOMAIN display.writes : display.writes[k] # EmptyLine
        /\ display.displayMutex = "free" =>
              /\ Rows(display.displayLines, display.displayIndex) = LastWrites(DisplaySize)
              /\ display.writes # <<>> => display.screen = LastWrites(DisplaySize)

\* more lines than the buffer holds were stored, and an empty one was passed
C25_Witness ==
    /\ display # <<>> /\ display.displayMutex = "free"
    /\ Len(display.writes) > DisplaySize
    /\ display.calls > Len(display.writes)

(***************************************************************************)
(* loadConfig (LoadConfig and LoadConfigOnly).  load.file and load.doc are *)
(* the configuration file and what its YAML document gives; load.compose   *)
(* tells whether the compose file can be read; load.sproutFile is the      *)
(* SproutFile being filled and load.did the history of the calls made.     *)
(* processDockerComposeImages, which SpecResolve models step by step, is   *)
(* one step here: it fails, or it sets Images and ModifiedContent.         *)
(*                                                                         *)
(* Content, ModifiedContent and Images of DockerComposeConfig carry no     *)
(* yaml tag (types.go), so yaml.Unmarshal fills them from the keys         *)
(* content, modifiedcontent and images of docker_compose when the          *)
(* document has them (load.doc.derived).                                   *)
(***************************************************************************)
Documents ==
    [enabled : BOOLEAN, path : {"", "compose.yml"}, output : {"", "out.img"},
     derived : BOOLEAN]

EmptySproutFile ==
    [Enabled |-> FALSE, Path |-> "", Output |-> "",
     Content |-> "", ModifiedContent |-> "", Images |-> <<>>]

\* yaml.Unmarshal(data, &sproutFile), line 30
Unmarshal(doc) ==
    [Enabled |-> doc.enabled, Path |-> doc.path, Output |-> doc.output,
     Content |-> IF doc.derived THEN "document" ELSE "",
     ModifiedContent |-> IF doc.derived THEN "document" ELSE "",
     Images |-> IF doc.derived THEN <<"document">> ELSE <<>>]

\* line 35
shouldProcess(processDocker, sf) == processDocker /\ sf.Enabled /\ sf.Path # ""

LoadFail(l, call) == [l EXCEPT !.pc = "returned", !.result = "error", !.did = Append(@, call)]

InitLoad ==
    /\ pc = "idle" /\ disableEnv = <<>> /\ nixOnPath = FALSE
    /\ ran = <<>> /\ ret = Ok(<<>>)
    /\ BackendsIdle
    /\ CopyIdle
    /\ LocateIdle
    /\ ResolveIdle
    /\ TimerIdle /\ DisplayIdle /\ GrowIdle /\ BurnIdle
    /\ \E processDocker \in BOOLEAN, file \in {"unreadable", "malformed", "ok"},
          doc \in Documents, compose \in {"unreadable", "ok"} :
          load = [pc |-> "ReadFile", processDocker |-> processDocker, file |-> file,
                  doc |-> doc, compose |-> compose, sproutFile |-> EmptySproutFile,
                  did |-> <<>>, result |-> "none"]

\* lines 24-27
ReadConfig ==
    /\ load # <<>> /\ load.pc = "ReadFile"
    /\ load' = IF load.file = "unreadable" THEN LoadFail(load, "ReadFile")
               ELSE [load EXCEPT !.pc = "Unmarshal", !.did = Append(@, "ReadFile")]
    /\ UNCHANGED <<buildVars, localVars, dockerVars, copyVars, locate, resolveVars,
                   timedOut, display, grow, burn>>

\* lines 29-38
UnmarshalConfig ==
    /\ load # <<>> /\ load.pc = "Unmarshal"
    /\ load' = IF load.file = "malformed" THEN LoadFail(load, "Unmarshal")
               ELSE LET sf == Unmarshal(load.doc)
                    IN  [load EXCEPT !.sproutFile = sf, !.did = Append(@, "Unmarshal"),
                            !.pc = IF shouldProcess(load.processDocker, sf)
                                   THEN "ReadCompose" ELSE "returned",
                            !.result = IF shouldProcess(load.processDocker, sf)
                                       THEN "none" ELSE "config"]
    /\ UNCHANGED <<buildVars, localVars, dockerVars, copyVars, locate, resolveVars,
                   timedOut, display, grow, burn>>

\* lines 40-51
ReadCompose ==
    /\ load # <<>> /\ load.pc = "ReadCompose"
    /\ load' = IF load.compose = "unreadable" THEN LoadFail(load, "ReadCompose")
               ELSE [load EXCEPT !.pc = "processDockerComposeImages",
                                 !.did = Append(@, "ReadCompose"),
                                 !.sproutFile.Content = "compose"]
    /\ UNCHANGED <<buildVars, localVars, dockerVars, copyVars, locate, resolveVars,
                   timedOut, display, grow, burn>>

\* lines 53-58
ProcessImages(ok) ==
    /\ load # <<>> /\ load.pc = "processDockerComposeImages"
    /\ load' = IF ~ok THEN LoadFail(load, "processDockerComposeImages")
               ELSE [load EXCEPT !.pc = "returned", !.result = "config",
                                 !.did = Append(@, "processDockerComposeImages"),
                                 !.sproutFile.Images = <<"resolved">>,
                                 !.sproutFile.ModifiedContent = "rewritten"]
    /\ UNCHANGED <<buildVars, localVars, dockerVars, copyVars, locate, resolveVars,
                   timedOut, display, grow, burn>>

NextLoad ==
    \/ ReadConfig
    \/ UnmarshalConfig
    \/ ReadCompose
    \/ \E ok \in BOOLEAN : ProcessImages(ok)

SpecLoad == InitLoad /\ [][NextLoad]_vars

LoadDid(call) == call \in {load.did[k] : k \in DOMAIN load.did}

\* What the document gives for the fields of the returned configuration
\* that were read from it
AsInDocument(sf, doc) ==
    /\ sf.Enabled = doc.enabled /\ sf.Path = doc.path /\ sf.Output = doc.output
    /\ doc.derived => sf.Content = "document" /\ sf.ModifiedContent = "document"
                      /\ sf.Images = <<"document">>

MetadataOnlyParse ==
    /\ load.file # "ok" => load.result = "error"
    /\ load.result = "config" => AsInDocument(load.sproutFile, load.doc)
    /\ ~load.processDocker =>
          /\ load.file = "ok" => load.result = "config"
          /\ ~LoadDid("ReadCompose") /\ ~LoadDid("processDockerComposeImages")
          /\ load.result = "config" =>
                /\ load.sproutFile.Content = ""
                /\ load.sproutFile.ModifiedContent = ""
                /\ load.sproutFile.Images = <<>>

\* C27: LoadConfigOnly reads no compose file and resolves no image, returns
\* a configuration with empty Content, ModifiedContent and Images whenever
\* the file can be read and parsed, and fails otherwise as LoadConfig does;
\* the fields read from the document have the document's values in what
\* either parse returns.
C27_MetadataOnlyParse ==
    load # <<>> /\ load.pc = "returned" => MetadataOnlyParse

\* The same for the documents without the keys content, modifiedcontent
\* and images under docker_compose
C27_MetadataOnlyParseOfPlainDocuments ==
    load # <<>> /\ load.pc = "returned" /\ ~load.doc.derived => MetadataOnlyParse

C27_PlainWitness ==
    /\ load # <<>> /\ load.pc = "returned" /\ ~load.processDocker /\ ~load.doc.derived
    /\ load.result = "config" /\ shouldProcess(TRUE, load.sproutFile)

(***************************************************************************)
(* runBurn and selectDisk (internal/cmd/burn.go).  burn.disks is the       *)
(* number of disks that DetectRemovableDisks returned, burn.selected the   *)
(* place of the selected disk in that list (0: none), burn.typed the lines *)
(* read by selectDisk and burn.answer the line read as confirmation, as    *)
(* typed; burn.unmounted tells whether UnmountDisk was called and          *)
(* burn.burned names the disk burnImage was called on (0: none).           *)
(***************************************************************************)
MaxDisks == 2
MaxAttempts == 2

\* Lines that the user may type when asked for a disk
SEL_1 == <<49, 10>>
SEL_2 == <<50, 10>>
SEL_2_SPACED == <<32, 50, 32, 10>>
SEL_0 == <<48, 10>>
SEL_9 == <<57, 10>>
SEL_Q == <<113, 10>>
SEL_QUIT == <<113, 117, 105, 116, 10>>
SEL_X == <<120, 10>>
Selections == {SEL_1, SEL_2, SEL_2_SPACED, SEL_0, SEL_9, SEL_Q, SEL_QUIT, SEL_X}

\* Lines that the user may type when asked to confirm
ANS_YES == <<121, 101, 115, 10>>
ANS_Y == <<121, 10>>
ANS_YES_UPPER == <<89, 69, 83, 10>>
ANS_Y_SPACED == <<32, 89, 32, 10>>
ANS_NO == <<110, 111, 10>>
ANS_EMPTY == <<10>>
ANS_YEAH == <<121, 101, 97, 104, 10>>
Answers == {ANS_YES, ANS_Y, ANS_YES_UPPER, ANS_Y_SPACED, ANS_NO, ANS_EMPTY, ANS_YEAH}

\* strings.ToLower on ASCII text
ToLower(str) == [k \in 1..Len(str) |-> IF str[k] \in 65..90 THEN str[k] + 32 ELSE str[k]]

IsNumber(str) == str # <<>> /\ \A k \in 1..Len(str) : str[k] \in 48..57

RECURSIVE DecimalValue(_)
DecimalValue(str) ==
    IF str = <<>> THEN 0
    ELSE 10 * DecimalValue(SubSeq(str, 1, Len(str) - 1)) + (str[Len(str)] - 48)

\* strconv.Atoi: an optional sign and decimal digits
Atoi(str) ==
    LET signed == str # <<>> /\ str[1] \in {43, 45}
        digits == IF signed THEN Tail(str) ELSE str
    IN  IF IsNumber(digits)
        THEN [ok |-> TRUE, n |-> IF signed /\ str[1] = 45 THEN 0 - DecimalValue(digits)
                                 ELSE DecimalValue(digits)]
        ELSE [ok |-> FALSE, n |-> 0]

BurnReturn(r, result) == [r EXCEPT !.pc = "done", !.result = result]

InitBurn ==
    /\ pc = "idle" /\ disableEnv = <<>> /\ nixOnPath = FALSE
    /\ ran = <<>> /\ ret = Ok(<<>>)
    /\ BackendsIdle
    /\ CopyIdle
    /\ LocateIdle
    /\ ResolveIdle
    /\ TimerIdle /\ DisplayIdle /\ GrowIdle /\ LoadIdle
    /\ \E force \in BOOLEAN :
          burn = [pc |-> "DetectRemovableDisks", force |-> force, disks |-> 0,
                  selected |-> 0, typed |-> <<>>, answer |-> <<>>, answered |-> FALSE,
                  unmounted |-> FALSE, burned |-> 0, result |-> "none"]

\* lines 79-106: the detection, and with --force the choice of the only disk
DetectDisks(n, ok) ==
    /\ burn # <<>> /\ burn.pc = "DetectRemovableDisks"
    /\ n \in 0..MaxDisks
    /\ burn' = IF ~ok THEN BurnReturn(burn, "error")
               ELSE IF n = 0 THEN BurnReturn(burn, "nil")
               ELSE IF ~burn.force THEN [burn EXCEPT !.disks = n, !.pc = "selectDisk"]
               ELSE IF n = 1 THEN [burn EXCEPT !.disks = n, !.selected = 1, !.pc = "UnmountDisk"]
               ELSE BurnReturn([burn EXCEPT !.disks = n], "error")
    /\ UNCHANGED <<buildVars, localVars, dockerVars, copyVars, locate, resolveVars,
                   timedOut, display, grow, load>>

\* One turn of the loop of selectDisk (lines 238-257), and lines 96-99
SelectDisk(input, ok) ==
    /\ burn # <<>> /\ burn.pc = "selectDisk"
    /\ Len(burn.typed) < MaxAttempts
    /\ IF ~ok
       THEN burn' = BurnReturn(burn, "error")
       ELSE LET typed == Append(burn.typed, input)
                text == TrimSpace(input)
                choice == Atoi(text)
            IN  IF text \in {TrimSpace(SEL_Q), TrimSpace(SEL_QUIT)}
                THEN burn' = BurnReturn([burn EXCEPT !.typed = typed], "error")
                ELSE IF ~choice.ok \/ choice.n < 1 \/ choice.n > burn.disks
                THEN burn' = [burn EXCEPT !.typed = typed]
                ELSE burn' = [burn EXCEPT !.typed = typed, !.selected = choice.n,
                                          !.pc = "confirm"]
    /\ UNCHANGED <<buildVars, localVars, dockerVars, copyVars, locate, resolveVars,
                   timedOut, display, grow, load>>

\* lines 120-121
ConfirmedUnlessNo(response) ==
    TrimSpace(ToLower(response)) # TrimSpace(ANS_NO)
Confirmed(response) ==
    TrimSpace(ToLower(response)) \in {TrimSpace(ANS_YES), TrimSpace(ANS_Y)}

\* lines 109-125
Confirm(response, ok) ==
    /\ burn # <<>> /\ burn.pc = "confirm"
    /\ burn' = IF ~ok THEN BurnReturn(burn, "error")
               ELSE IF Confirmed(response)
               THEN [burn EXCEPT !.answer = response, !.answered = TRUE, !.pc = "UnmountDisk"]
               ELSE BurnReturn([burn EXCEPT !.answer = response, !.answered = TRUE], "nil")
    /\ UNCHANGED <<buildVars, localVars, dockerVars, copyVars, locate, resolveVars,
                   timedOut, display, grow, load>>

\* lines 128-134: a failure is a warning
Unmount(ok) ==
    /\ burn # <<>> /\ burn.pc = "UnmountDisk"
    /\ burn' = [burn EXCEPT !.unmounted = TRUE, !.pc = "burnImage"]
    /\ UNCHANGED <<buildVars, localVars, dockerVars, copyVars, locate, resolveVars,
                   timedOut, display, grow, load>>

\* lines 145-152: burnImage writes to the selected disk, and may fail
BurnImage(ok) ==
    /\ burn # <<>> /\ burn.pc = "burnImage"
    /\ burn' = BurnReturn([burn EXCEPT !.burned = burn.selected], IF ok THEN "nil" ELSE "error")
    /\ UNCHANGED <<buildVars, localVars, dockerVars, copyVars, locate, resolveVars,
                   timedOut, display, grow, load>>

NextBurn ==
    \/ \E n \in 0..MaxDisks, ok \in BOOLEAN : DetectDisks(n, ok)
    \/ \E input \in Selections, ok \in BOOLEAN : SelectDisk(input, ok)
    \/ \E response \in Answers, ok \in BOOLEAN : Confirm(response, ok)
    \/ \E ok \in BOOLEAN : Unmount(ok)
    \/ \E ok \in BOOLEAN : BurnImage(ok)

SpecBurn == InitBurn /\ [][NextBurn]_vars

\* The disk that a typed line chooses from a list of n disks (0: none)
ChosenBy(input, n) ==
    CASE input = SEL_1 /\ n >= 1 -> 1
      [] input \in {SEL_2, SEL_2_SPACED} /\ n >= 2 -> 2
      [] OTHER -> 0

\* The typed lines that answer yes or y, in any letter case and with white
\* space around, as a line of a terminal is read
Affirmative == {ANS_YES, ANS_Y, ANS_YES_UPPER, ANS_Y_SPACED}

\* C28: burnImage is called only on a detected disk; without --force only
\* on the disk that the last line typed to selectDisk chose and after an
\* answer yes or y, and any other answer ends the command with no unmount
\* and no write; with --force only when one disk was detected, and several
\* disks end the command with an error, no unmount and no write; no write
\* without a detected disk.
C28_BurnOnlyAfterChecks ==
    burn # <<>> =>
        /\ burn.unmounted \/ burn.burned # 0 =>
              /\ burn.disks >= 1
              /\ burn.selected \in 1..burn.disks
              /\ burn.burned \in {0, burn.selected}
              /\ burn.force => burn.disks = 1 /\ burn.typed = <<>> /\ ~burn.answered
              /\ ~burn.force =>
                    /\ burn.typed # <<>>
                    /\ ChosenBy(burn.typed[Len(burn.typed)], burn.disks) = burn.selected
                    /\ burn.answered /\ burn.answer \in Affirmative
        /\ burn.answered /\ burn.answer \notin Affirmative =>
              burn.pc = "done" /\ ~burn.unmounted /\ burn.burned = 0
        /\ burn.force /\ burn.disks > 1 =>
              burn.pc = "done" /\ burn.result = "error" /\ ~burn.unmounted /\ burn.burned = 0

\* the second of two disks was chosen at the second attempt, confirmed and burned
C28_Witness ==
    /\ burn # <<>> /\ ~burn.force /\ burn.burned = 2
    /\ Len(burn.typed) = 2 /\ burn.answer = ANS_YES_UPPER

\* --force with one disk burned it without a question
C28_Forced ==
    burn # <<>> /\ burn.force /\ burn.burned = 1

\* The services that declare the reference explicitly, and the build-only
\* services whose synthesised reference it is
DeclaredBy(image) == {name \in DOMAIN services : services[name].image = image}
SynthesisedFor(image) ==
    {name \in DOMAIN services :
        services[name].image = <<>> /\ services[name].build /\ image = name \o COLON_LATEST}

\* C29: an image that a service declares explicitly is never built, and
\* every image that is built is the <service>:latest of a service with a
\* build context and no image.
C29_ExplicitImagesArePulled ==
    \A k \in 1..Len(embedLog) :
        LET e == embedLog[k]
        IN  /\ DeclaredBy(e.image) # {} => e.op # "build"
            /\ e.op = "build" => SynthesisedFor(e.image) # {}

\* The bytes of the payloads of the frames, in the order of the frames
RECURSIVE Payloads(_)
Payloads(fs) == IF fs = <<>> THEN <<>> ELSE Head(fs).payload \o Payloads(Tail(fs))

\* C30: when the stream held whole frames only and was read to its end,
\* the accumulated lines are the trimmed non-empty lines of the bytes that
\* the container wrote, however these bytes were cut into frames, and the
\* path that extractNixStorePath finds in them is the last of these lines
\* that starts with "/nix/store/".
C30_FramingIndependent ==
    ReadToEnd /\ framesRead = Len(frames) =>
        LET ls == TrimmedLines(Payloads(frames))
        IN  /\ buildOutput = JoinLines(ls)
            /\ extractNixStorePath(buildOutput) =
                  IF StoreLines(ls) = {} THEN Fail ELSE Ok(ls[Max(StoreLines(ls))])

=============================================================================
